---- MODULE Spec2Model ----
(***************************************************************************)
(* v-log: the global vlogger registration (STATE / VLOGGER, set_vlogger,   *)
(* set_boxed_vlogger, vlogger) and the dispatch functions of               *)
(* __private_api that hand Records to a backend.                           *)
(*                                                                         *)
(* Threads call the public operations; every atomic access of STATE and    *)
(* every access of the VLOGGER static is one step.  VLOGGER holds a        *)
(* `&dyn VLog`, a two-word fat pointer (data, vtable) that is written with *)
(* a plain, non-atomic assignment: the model writes its two words in two   *)
(* steps, in either order.                                                 *)
(*                                                                         *)
(* Specifications:                                                         *)
(*   Spec / FairSpec  installs, vlogger(), point! and clear! through the   *)
(*                    global proxy, racing on NumThreads threads;          *)
(*   SpecRacy         set_vlogger_racy used within its safety contract (no *)
(*                    install call overlaps another), next to readers;     *)
(*   SpecRace         set_vlogger_racy racing the other install calls;     *)
(*   SpecDispatch     one thread: install, the four visual-kind dispatch   *)
(*                    functions, clear and enabled, global and with        *)
(*                    `vlogger: b`;                                        *)
(*   SpecDecorators   one dispatch call on a backend inside up to MaxWrap  *)
(*                    decorators (&T, Box<T>, Arc<T>);                     *)
(*   SpecCoords       one dispatch or polyline! call, for every position   *)
(*                    and point list of the bounds, carried out;           *)
(*   SpecBuilder      RecordBuilder setters in any order, then build().    *)
(***************************************************************************)
EXTENDS Naturals, FiniteSets, Sequences, TLC

\* ---------------------------------------------------------------- bounds
NumThreads == 3
MaxCalls == 3
\* Calls one behaviour of the sequential dispatch model makes.
MaxDispatch == 2
\* Longest position (number of coordinates) handed to a dispatch function.
MaxCoords == 4
\* Most points of one polyline.
MaxPoints == 3
\* Threads of the model in which set_vlogger_racy races other installers.
MaxRaceThreads == 2
\* Most decorators (&T, Box<T>, Arc<T>) around one backend.
MaxWrap == 2

\* ------------------------------------------------------ program constants
UNINITIALIZED == 0
INITIALIZING == 1
INITIALIZED == 2

\* --------------------------------------------------------------- universe
Threads == 1..NumThreads
\* The no-op backend (static NOP: NopVLogger, and the initial VLOGGER).
NOP == 0
\* User backends; every install call passes one that no earlier call passed.
Backends == 1..MaxCalls
Surfaces == {"S", "T"}
ModulePath == "app"
Targets == {ModulePath, "tgt"}
VisualFns == {"vlog_message", "vlog_point", "vlog_line", "vlog_label"}
\* The proxy value the macros pass when no vlogger: is given.
GlobalVLogger == "GlobalVLogger"

\* A `&dyn VLog`: data pointer and vtable pointer.
Ref(b) == [data |-> b, vtable |-> b]
NopRef == Ref(NOP)
IsTorn(r) == r.data # r.vtable

VARIABLES
    State,      \* static STATE: AtomicUsize (STATE is a reserved word of TLA+)
    VLOGGER,    \* static mut VLOGGER: &dyn VLog
    pc,         \* pc[t]: position of thread t inside its current call
    call,       \* call[t]: the call thread t is in, with its arguments and locals
    made,       \* backends whose make_vlogger closure has run
    results,    \* results[b]: the install call that passed backend b, once returned
    seen,       \* the vlogger() calls that have returned: what each loaded and got
    log,        \* calls the user backends have received, in order
    ninstalls,  \* install calls started so far
    ncalls,     \* calls started so far
    ndispatch   \* visual-kind dispatch calls made so far: .global with the
                \* global proxy, .explicit[b] with backend b given explicitly

vars == <<State, VLOGGER, pc, call, made, results, seen, log, ninstalls, ncalls,
          ndispatch>>

NoCall == [op |-> "none"]

\* ------------------------------------------------------------ event model

\* Option<T>
None == <<>>
Some(x) == <<x>>

MetadataBuilder_new == [surface |-> "", target |-> ""]
MetadataBuilder_surface(m, surface) == [m EXCEPT !.surface = surface]
MetadataBuilder_target(m, target) == [m EXCEPT !.target = target]

\* Variant: a fresh builder starts with size 0.0, the size vlog_message passes.
RecordBuilder_new_size_zero ==
    [visual |-> [kind |-> "Message"],
     color |-> "Base",
     size |-> 0,
     args |-> "",
     metadata |-> MetadataBuilder_new,
     module_path |-> None,
     file |-> None,
     line |-> None]

RecordBuilder_new ==
    [visual |-> [kind |-> "Message"],
     color |-> "Base",
     size |-> 12,
     args |-> "",
     metadata |-> MetadataBuilder_new,
     module_path |-> None,
     file |-> None,
     line |-> None]

RecordBuilder_visual(r, visual) == [r EXCEPT !.visual = visual]
RecordBuilder_color(r, color) == [r EXCEPT !.color = color]
RecordBuilder_size(r, size) == [r EXCEPT !.size = size]
RecordBuilder_args(r, args) == [r EXCEPT !.args = args]
RecordBuilder_surface(r, surface) == [r EXCEPT !.metadata.surface = surface]
\* Variant: target() writes the surface component.
RecordBuilder_target_as_surface(r, target) == [r EXCEPT !.metadata.surface = target]
RecordBuilder_target(r, target) == [r EXCEPT !.metadata.target = target]
\* Variant: metadata() takes the surface of its argument and keeps the target.
RecordBuilder_metadata_surface_only(r, metadata) ==
    [r EXCEPT !.metadata.surface = metadata.surface]
RecordBuilder_metadata(r, metadata) == [r EXCEPT !.metadata = metadata]
\* path.map(MaybeStaticStr::Borrowed)
RecordBuilder_module_path(r, path) ==
    [r EXCEPT !.module_path =
        IF path = None THEN None ELSE Some([static |-> FALSE, s |-> path[1]])]
RecordBuilder_file(r, file) ==
    [r EXCEPT !.file =
        IF file = None THEN None ELSE Some([static |-> FALSE, s |-> file[1]])]
\* path.map(MaybeStaticStr::Static)
RecordBuilder_module_path_static(r, path) ==
    [r EXCEPT !.module_path =
        IF path = None THEN None ELSE Some([static |-> TRUE, s |-> path[1]])]
RecordBuilder_file_static(r, file) ==
    [r EXCEPT !.file =
        IF file = None THEN None ELSE Some([static |-> TRUE, s |-> file[1]])]
RecordBuilder_line(r, line) == [r EXCEPT !.line = line]

\* ------------------------------------------------------- backend contract

\* The user backends are spies with fixed filters: backends 1, 4, ... accept
\* only surface "S", backends 2, 5, ... every Metadata, backends 3, 6, ... none.
SpyEnabled(b, metadata) ==
    CASE b % 3 = 1 -> metadata.surface = "S"
      [] b % 3 = 2 -> TRUE
      [] OTHER -> FALSE

\* impl VLog for NopVLogger
\* Variant: the no-op backend reports every Metadata as enabled.
NopVLogger_enabled_true(metadata) == TRUE

NopVLogger_enabled(metadata) == FALSE

\* enabled() through a reference r: the method is found through the vtable
\* word, so a reference whose words belong to two backends runs the enabled
\* of the backend its vtable word names.
VLog_enabled(r, metadata) ==
    IF r = NopRef THEN NopVLogger_enabled(metadata)
    ELSE SpyEnabled(r.vtable, metadata)

\* vlog() through a reference r: NopVLogger's body is empty, a user backend
\* records the call: the Record it was given and, beside it, the dispatch
\* call (req) the Record came from.
VLog_vlog(r, record, req) ==
    IF r = NopRef THEN log
    ELSE Append(log, [ref |-> r, method |-> "vlog", arg |-> record, req |-> req])

\* The log after enabled(metadata) is called through r: a user backend
\* records the call (what it answers is VLog_enabled).
VLog_enabled_call(r, metadata, req) ==
    IF r = NopRef THEN log
    ELSE Append(log, [ref |-> r, method |-> "enabled", arg |-> metadata, req |-> req])

\* clear(surface) through r: NopVLogger's body is empty, a user backend
\* records the call.
VLog_clear(r, surface, req) ==
    IF r = NopRef THEN log
    ELSE Append(log, [ref |-> r, method |-> "clear", arg |-> surface, req |-> req])


\* ----------------------------------------------------- dispatch functions

\* The call site (std::panic::Location) of the dispatching macro.
CallSite == [file |-> "app.rs", line |-> 7]
\* Mutant of TargetModulePathAndLoc: the target stands in for the module
\* path too.
TargetModulePathAndLoc_target_twice(target) == <<target, target, CallSite>>

\* &(target, module_path!(), loc()) as the macros build it.
TargetModulePathAndLoc(target) == <<target, ModulePath, CallSite>>

\* Variant: the last element of a position is never read.
Coord_short(pos, i) == IF i < Len(pos) THEN pos[i] ELSE 0

\* pos.next().unwrap_or(0.0), called i times on a fresh iterator
Coord(pos, i) == IF i <= Len(pos) THEN pos[i] ELSE 0

\* Variant: the builder chain leaves out .surface(surface).
vlog_without_surface(args, visual, size, color, surface, target_module_path_and_loc) ==
    LET target == target_module_path_and_loc[1]
        module_path == target_module_path_and_loc[2]
        loc == target_module_path_and_loc[3]
        b1 == RecordBuilder_args(RecordBuilder_new, args)
        b2 == RecordBuilder_visual(b1, visual)
        b3 == RecordBuilder_size(b2, size)
        b4 == RecordBuilder_color(b3, color)
        b6 == RecordBuilder_target(b4, target)
        b7 == RecordBuilder_module_path_static(b6, Some(module_path))
        b8 == RecordBuilder_file_static(b7, Some(loc.file))
    IN  RecordBuilder_line(b8, Some(loc.line))

\* __private_api::vlog up to its last statement: the Record handed to
\* vlogger.vlog().  No enabled() call is made on the way.
vlog(args, visual, size, color, surface, target_module_path_and_loc) ==
    LET target == target_module_path_and_loc[1]
        module_path == target_module_path_and_loc[2]
        loc == target_module_path_and_loc[3]
        b1 == RecordBuilder_args(RecordBuilder_new, args)
        b2 == RecordBuilder_visual(b1, visual)
        b3 == RecordBuilder_size(b2, size)
        b4 == RecordBuilder_color(b3, color)
        b5 == RecordBuilder_surface(b4, surface)
        b6 == RecordBuilder_target(b5, target)
        b7 == RecordBuilder_module_path_static(b6, Some(module_path))
        b8 == RecordBuilder_file_static(b7, Some(loc.file))
    IN  RecordBuilder_line(b8, Some(loc.line))

vlog_point(args, pos, diameter, color, style, surface, tmpl) ==
    vlog(args,
         [kind |-> "Point", x |-> Coord(pos, 1), y |-> Coord(pos, 2),
          z |-> Coord(pos, 3), style |-> style],
         diameter, color, surface, tmpl)

vlog_line(args, pos1, pos2, thickness, color, style, surface, tmpl) ==
    vlog(args,
         [kind |-> "Line",
          x1 |-> Coord(pos1, 1), y1 |-> Coord(pos1, 2), z1 |-> Coord(pos1, 3),
          x2 |-> Coord(pos2, 1), y2 |-> Coord(pos2, 2), z2 |-> Coord(pos2, 3),
          style |-> style],
         thickness, color, surface, tmpl)

vlog_label(args, pos, size, color, alignment, surface, tmpl) ==
    vlog(args,
         [kind |-> "Label", x |-> Coord(pos, 1), y |-> Coord(pos, 2),
          z |-> Coord(pos, 3), alignment |-> alignment],
         size, color, surface, tmpl)

vlog_message(args, color, surface, tmpl) ==
    vlog(args, [kind |-> "Message"], 0, color, surface, tmpl)

\* A call of a visual-kind dispatch function, as the macros make it: the
\* function and its arguments (pos2 is read by vlog_line only).
Request(fn, args, pos, pos2, size, color, style, surface, target) ==
    [fn |-> fn, args |-> args, pos |-> pos, pos2 |-> pos2, size |-> size,
     color |-> color, style |-> style, surface |-> surface, target |-> target]

\* The Record the dispatch call d hands to the backend.
Dispatched(d) ==
    LET tmpl == TargetModulePathAndLoc(d.target) IN
    CASE d.fn = "vlog_message" -> vlog_message(d.args, d.color, d.surface, tmpl)
      [] d.fn = "vlog_point" ->
            vlog_point(d.args, d.pos, d.size, d.color, d.style, d.surface, tmpl)
      [] d.fn = "vlog_line" ->
            vlog_line(d.args, d.pos, d.pos2, d.size, d.color, d.style, d.surface, tmpl)
      [] d.fn = "vlog_label" ->
            vlog_label(d.args, d.pos, d.size, d.color, d.style, d.surface, tmpl)

\* The dispatch call the threads of the registration model make with fn.
DispatchRequest(fn, surface, target) ==
    CASE fn = "vlog_message" ->
            Request(fn, "hello", <<>>, <<>>, 0, "Base", "", surface, target)
      [] fn = "vlog_point" ->
            Request(fn, "", <<1, 2>>, <<>>, 5, "Base", "Point", surface, target)
      [] fn = "vlog_line" ->
            Request(fn, "", <<0, 0>>, <<1, 0>>, 5, "Base", "Simple", surface, target)
      [] fn = "vlog_label" ->
            Request(fn, "pos", <<1, 2>>, <<>>, 12, "Base", "Flexible", surface, target)

\* The Record a visual-kind dispatch function hands to the backend, for the
\* arguments the threads of the registration model dispatch with.
DispatchRecord(fn, surface, target) == Dispatched(DispatchRequest(fn, surface, target))

\* ------------------------------------------------------------------ state

Init ==
    /\ State = UNINITIALIZED
    /\ VLOGGER = NopRef
    /\ pc = [t \in Threads |-> "idle"]
    /\ call = [t \in Threads |-> NoCall]
    /\ made = {}
    /\ results = [b \in Backends |-> NoCall]
    /\ seen = {}
    /\ log = <<>>
    /\ ninstalls = 0
    /\ ncalls = 0
    /\ ndispatch = [global |-> 0, explicit |-> [b \in Backends |-> 0]]

\* Thread t may start a call.  A thread keeps nothing from one call to the
\* next, so which idle thread makes a call changes nothing: the call goes
\* to the lowest idle one.
CanCall(t) ==
    /\ pc[t] = "idle"
    /\ \A u \in Threads : u < t => pc[u] # "idle"
    /\ ncalls < MaxCalls

\* Thread t returns from its call.
Return(t) ==
    /\ pc' = [pc EXCEPT ![t] = "idle"]
    /\ call' = [call EXCEPT ![t] = NoCall]

\* Thread t returns val from its set_vlogger / set_boxed_vlogger call.
ReturnInstall(t, val, cas) ==
    /\ Return(t)
    /\ results' = [results EXCEPT ![call[t].b] =
            [st0 |-> call[t].st0, cas |-> cas, val |-> val]]

\* The install calls that have returned.
Returned == {b \in Backends : results[b] # NoCall}

\* ------------------------------------ set_vlogger / set_boxed_vlogger

\* The make_vlogger closure each entry point hands to set_vlogger_inner:
\* `|| vlogger` for set_vlogger, `|| Box::leak(vlogger)` for
\* set_boxed_vlogger.  Either yields the 'static reference to backend b.
make_vlogger(op, b) == Ref(b)

\* Mutant of CallSetVLogger: set_boxed_vlogger leaks its Box on entry,
\* before set_vlogger_inner has tried the compare-and-set.
CallSetVLogger_leak_first(t, op) ==
    /\ CanCall(t)
    /\ pc' = [pc EXCEPT ![t] = "cas"]
    /\ call' = [call EXCEPT ![t] =
            [op |-> op, b |-> ninstalls + 1, st0 |-> State, cas |-> UNINITIALIZED]]
    /\ made' = IF op = "set_boxed_vlogger" THEN made \cup {ninstalls + 1} ELSE made
    /\ ninstalls' = ninstalls + 1
    /\ ncalls' = ncalls + 1
    /\ UNCHANGED <<State, VLOGGER, results, seen, log, ndispatch>>

\* Thread t calls set_vlogger(&b) or set_boxed_vlogger(Box::new(b)) with a
\* backend b that no other call has passed.
CallSetVLogger(t, op) ==
    /\ CanCall(t)
    /\ pc' = [pc EXCEPT ![t] = "cas"]
    /\ call' = [call EXCEPT ![t] =
            [op |-> op, b |-> ninstalls + 1, st0 |-> State, cas |-> UNINITIALIZED]]
    /\ ninstalls' = ninstalls + 1
    /\ ncalls' = ncalls + 1
    /\ UNCHANGED <<State, VLOGGER, made, results, seen, log, ndispatch>>

\* Mutant of compare_exchange: a plain load, the cell is never swapped.
compare_exchange_load(cell, current, new) ==
    [ok |-> cell = current, found |-> cell, left |-> cell]

\* Mutant of compare_exchange: an unconditional swap.
compare_exchange_swap(cell, current, new) ==
    [ok |-> cell = current, found |-> cell, left |-> new]

\* AtomicUsize::compare_exchange(current, new, ..): the value found, and
\* the value left in the cell.
compare_exchange(cell, current, new) ==
    [ok |-> cell = current, found |-> cell, left |-> IF cell = current THEN new ELSE cell]

\* Mutant of set_vlogger_inner_cas: the compare-and-set publishes
\* INITIALIZED at once, before the slot is written.
set_vlogger_inner_cas_early(t) ==
    /\ pc[t] = "cas"
    /\ LET r == compare_exchange(State, UNINITIALIZED, INITIALIZED) IN
        /\ State' = r.left
        /\ call' = [call EXCEPT ![t].cas = r.found]
        /\ IF r.ok
           THEN /\ pc' = [pc EXCEPT ![t] = "write"]
                /\ UNCHANGED results
           ELSE /\ pc' = [pc EXCEPT ![t] = "spin"]
                /\ UNCHANGED results
    /\ UNCHANGED <<VLOGGER, made, seen, log, ninstalls, ncalls, ndispatch>>

\* Mutant of set_vlogger_inner_cas: a caller that arrives once the state
\* is INITIALIZED is taken for the first one and installs again.
set_vlogger_inner_cas_reinstall(t) ==
    /\ pc[t] = "cas"
    /\ LET r == compare_exchange(State, UNINITIALIZED, INITIALIZING) IN
        /\ call' = [call EXCEPT ![t].cas = r.found]
        /\ IF r.found = INITIALIZING
           THEN /\ pc' = [pc EXCEPT ![t] = "spin"]
                /\ State' = r.left
           ELSE /\ pc' = [pc EXCEPT ![t] = "write"]
                /\ State' = INITIALIZING
    /\ UNCHANGED <<VLOGGER, made, results, seen, log, ninstalls, ncalls, ndispatch>>

\* Mutant of set_vlogger_inner_cas: every failed compare-and-set waits in
\* the spin loop, whatever value it observed.
set_vlogger_inner_cas_allspin(t) ==
    /\ pc[t] = "cas"
    /\ LET r == compare_exchange(State, UNINITIALIZED, INITIALIZING) IN
        /\ State' = r.left
        /\ pc' = [pc EXCEPT ![t] = IF r.ok THEN "write" ELSE "spin"]
        /\ call' = [call EXCEPT ![t].cas = r.found]
        /\ UNCHANGED results
    /\ UNCHANGED <<VLOGGER, made, seen, log, ninstalls, ncalls, ndispatch>>

\* Mutant of set_vlogger_inner_cas: a caller that finds another install in
\* progress takes that for impossible and panics.
set_vlogger_inner_cas_unreachable(t) ==
    /\ pc[t] = "cas"
    /\ LET r == compare_exchange(State, UNINITIALIZED, INITIALIZING) IN
        /\ State' = r.left
        /\ IF r.ok \/ r.found = INITIALIZING
           THEN /\ pc' = [pc EXCEPT ![t] = IF r.ok THEN "write" ELSE "panic"]
                /\ call' = [call EXCEPT ![t].cas = r.found]
                /\ UNCHANGED results
           ELSE ReturnInstall(t, "Err", r.found)
    /\ UNCHANGED <<VLOGGER, made, seen, log, ninstalls, ncalls, ndispatch>>

\* Mutant of set_vlogger_inner_cas: a caller that finds another install in
\* progress writes its own backend too instead of waiting.
set_vlogger_inner_cas_loser_writes(t) ==
    /\ pc[t] = "cas"
    /\ LET r == compare_exchange(State, UNINITIALIZED, INITIALIZING) IN
        /\ State' = r.left
        /\ IF r.ok \/ r.found = INITIALIZING
           THEN /\ pc' = [pc EXCEPT ![t] = "write"]
                /\ call' = [call EXCEPT ![t].cas = r.found]
                /\ UNCHANGED results
           ELSE ReturnInstall(t, "Err", r.found)
    /\ UNCHANGED <<VLOGGER, made, seen, log, ninstalls, ncalls, ndispatch>>

\* The match on STATE.compare_exchange(UNINITIALIZED, INITIALIZING, ..).
set_vlogger_inner_cas(t) ==
    /\ pc[t] = "cas"
    /\ LET r == compare_exchange(State, UNINITIALIZED, INITIALIZING) IN
        /\ State' = r.left
        /\ IF r.ok
           THEN \* Ok(UNINITIALIZED)
                /\ pc' = [pc EXCEPT ![t] = "write"]
                /\ call' = [call EXCEPT ![t].cas = r.found]
                /\ UNCHANGED results
           ELSE IF r.found = INITIALIZING
           THEN \* Err(INITIALIZING): enter the spin loop
                /\ pc' = [pc EXCEPT ![t] = "spin"]
                /\ call' = [call EXCEPT ![t].cas = r.found]
                /\ UNCHANGED results
           ELSE \* _ => Err(SetVLoggerError(()))
                ReturnInstall(t, "Err", r.found)
    /\ UNCHANGED <<VLOGGER, made, seen, log, ninstalls, ncalls, ndispatch>>

\* VLOGGER = make_vlogger(): the closure runs (for set_boxed_vlogger it
\* leaks the Box), then the first word of the slot is written.
set_vlogger_inner_write(t) ==
    /\ pc[t] = "write"
    /\ \E w \in {"data", "vtable"} :
        /\ VLOGGER' = [VLOGGER EXCEPT ![w] = make_vlogger(call[t].op, call[t].b)[w]]
        /\ call' = [call EXCEPT ![t] = [first |-> w] @@ @]
    /\ made' = made \cup {call[t].b}
    /\ pc' = [pc EXCEPT ![t] = "write2"]
    /\ UNCHANGED <<State, results, seen, log, ninstalls, ncalls, ndispatch>>

\* The second word of the slot is written.
set_vlogger_inner_write2(t) ==
    /\ pc[t] = "write2"
    /\ LET w == IF call[t].first = "data" THEN "vtable" ELSE "data" IN
        VLOGGER' = [VLOGGER EXCEPT ![w] = make_vlogger(call[t].op, call[t].b)[w]]
    /\ pc' = [pc EXCEPT ![t] = "store"]
    /\ UNCHANGED <<State, call, made, results, seen, log, ninstalls, ncalls, ndispatch>>

\* Mutant of set_vlogger_inner_store: Ok(()) without the store.
set_vlogger_inner_store_missing(t) ==
    /\ pc[t] = "store"
    /\ ReturnInstall(t, "Ok", call[t].cas)
    /\ UNCHANGED <<State, VLOGGER, made, seen, log, ninstalls, ncalls, ndispatch>>

\* STATE.store(INITIALIZED, Release); Ok(())
set_vlogger_inner_store(t) ==
    /\ pc[t] = "store"
    /\ State' = INITIALIZED
    /\ ReturnInstall(t, "Ok", call[t].cas)
    /\ UNCHANGED <<VLOGGER, made, seen, log, ninstalls, ncalls, ndispatch>>

\* Mutant of set_vlogger_inner_spin: once the other install is over the
\* caller reports success.
set_vlogger_inner_spin_ok(t) ==
    /\ pc[t] = "spin"
    /\ IF State = INITIALIZING
       THEN UNCHANGED <<pc, call, results>>
       ELSE ReturnInstall(t, "Ok", call[t].cas)
    /\ UNCHANGED <<State, VLOGGER, made, seen, log, ninstalls, ncalls, ndispatch>>

\* Mutant of set_vlogger_inner_spin: Err at once, without the loop.
set_vlogger_inner_spin_noloop(t) ==
    /\ pc[t] = "spin"
    /\ ReturnInstall(t, "Err", call[t].cas)
    /\ UNCHANGED <<State, VLOGGER, made, seen, log, ninstalls, ncalls, ndispatch>>

\* One evaluation of `while STATE.load(Relaxed) == INITIALIZING`:
\* either another turn of the loop or Err(SetVLoggerError(())).
set_vlogger_inner_spin(t) ==
    /\ pc[t] = "spin"
    /\ IF State = INITIALIZING
       THEN UNCHANGED <<pc, call, results>>
       ELSE ReturnInstall(t, "Err", call[t].cas)
    /\ UNCHANGED <<State, VLOGGER, made, seen, log, ninstalls, ncalls, ndispatch>>

\* ------------------------------------------------------ set_vlogger_racy

\* Thread t calls the unsafe set_vlogger_racy(&b) with a backend b that no
\* other call has passed.
CallSetVLoggerRacy(t) ==
    /\ CanCall(t)
    /\ pc' = [pc EXCEPT ![t] = "rload"]
    /\ call' = [call EXCEPT ![t] =
            [op |-> "set_vlogger_racy", b |-> ninstalls + 1, st0 |-> State,
             cas |-> UNINITIALIZED]]
    /\ ninstalls' = ninstalls + 1
    /\ ncalls' = ncalls + 1
    /\ UNCHANGED <<State, VLOGGER, made, results, seen, log, ndispatch>>

\* Mutant of set_vlogger_racy_load: on UNINITIALIZED the call marks the
\* install as in progress, as set_vlogger_inner does, with a plain store.
set_vlogger_racy_load_marks(t) ==
    /\ pc[t] = "rload"
    /\ IF State = UNINITIALIZED
       THEN /\ pc' = [pc EXCEPT ![t] = "rwrite"]
            /\ call' = [call EXCEPT ![t].cas = State]
            /\ State' = INITIALIZING
            /\ UNCHANGED results
       ELSE IF State = INITIALIZING
       THEN /\ pc' = [pc EXCEPT ![t] = "panic"]
            /\ call' = [call EXCEPT ![t].cas = State]
            /\ UNCHANGED <<State, results>>
       ELSE ReturnInstall(t, "Err", State) /\ UNCHANGED State
    /\ UNCHANGED <<VLOGGER, made, seen, log, ninstalls, ncalls, ndispatch>>

\* Mutant of set_vlogger_racy_load: only an install in progress stops the
\* call; an installed backend is replaced.
set_vlogger_racy_load_reinstall(t) ==
    /\ pc[t] = "rload"
    /\ IF State = INITIALIZING
       THEN /\ pc' = [pc EXCEPT ![t] = "panic"]
            /\ call' = [call EXCEPT ![t].cas = State]
       ELSE /\ pc' = [pc EXCEPT ![t] = "rwrite"]
            /\ call' = [call EXCEPT ![t].cas = State]
    /\ UNCHANGED <<State, VLOGGER, made, results, seen, log, ninstalls, ncalls,
                   ndispatch>>

\* Mutant of set_vlogger_racy_load: on UNINITIALIZED the call publishes
\* INITIALIZED first and writes the slot afterwards.
set_vlogger_racy_load_publish_first(t) ==
    /\ pc[t] = "rload"
    /\ IF State = UNINITIALIZED
       THEN /\ pc' = [pc EXCEPT ![t] = "rwrite"]
            /\ call' = [call EXCEPT ![t].cas = State]
            /\ State' = INITIALIZED
            /\ UNCHANGED results
       ELSE IF State = INITIALIZING
       THEN /\ pc' = [pc EXCEPT ![t] = "panic"]
            /\ call' = [call EXCEPT ![t].cas = State]
            /\ UNCHANGED <<State, results>>
       ELSE ReturnInstall(t, "Err", State) /\ UNCHANGED State
    /\ UNCHANGED <<VLOGGER, made, seen, log, ninstalls, ncalls, ndispatch>>

\* match STATE.load(Acquire): UNINITIALIZED goes on to write the slot,
\* INITIALIZING hits unreachable!() and the thread panics,
\* anything else is Err(SetVLoggerError(())).
set_vlogger_racy_load(t) ==
    /\ pc[t] = "rload"
    /\ IF State = UNINITIALIZED
       THEN /\ pc' = [pc EXCEPT ![t] = "rwrite"]
            /\ call' = [call EXCEPT ![t].cas = State]
            /\ UNCHANGED results
       ELSE IF State = INITIALIZING
       THEN /\ pc' = [pc EXCEPT ![t] = "panic"]
            /\ call' = [call EXCEPT ![t].cas = State]
            /\ UNCHANGED results
       ELSE ReturnInstall(t, "Err", State)
    /\ UNCHANGED <<State, VLOGGER, made, seen, log, ninstalls, ncalls, ndispatch>>

\* VLOGGER = vlogger: the first word of the slot is written.
set_vlogger_racy_write(t) ==
    /\ pc[t] = "rwrite"
    /\ \E w \in {"data", "vtable"} :
        /\ VLOGGER' = [VLOGGER EXCEPT ![w] = Ref(call[t].b)[w]]
        /\ call' = [call EXCEPT ![t] = [first |-> w] @@ @]
    /\ pc' = [pc EXCEPT ![t] = "rwrite2"]
    /\ UNCHANGED <<State, made, results, seen, log, ninstalls, ncalls, ndispatch>>

\* The second word of the slot is written.
set_vlogger_racy_write2(t) ==
    /\ pc[t] = "rwrite2"
    /\ LET w == IF call[t].first = "data" THEN "vtable" ELSE "data" IN
        VLOGGER' = [VLOGGER EXCEPT ![w] = Ref(call[t].b)[w]]
    /\ pc' = [pc EXCEPT ![t] = "rstore"]
    /\ UNCHANGED <<State, call, made, results, seen, log, ninstalls, ncalls, ndispatch>>

\* STATE.store(INITIALIZED, Release); Ok(())
set_vlogger_racy_store(t) ==
    /\ pc[t] = "rstore"
    /\ State' = INITIALIZED
    /\ ReturnInstall(t, "Ok", call[t].cas)
    /\ UNCHANGED <<VLOGGER, made, seen, log, ninstalls, ncalls, ndispatch>>

\* ------------------------------------------------------------- vlogger()

\* Thread t calls vlogger() directly.
CallVlogger(t) ==
    /\ CanCall(t)
    /\ pc' = [pc EXCEPT ![t] = "load"]
    /\ call' = [call EXCEPT ![t] = [op |-> "vlogger"]]
    /\ ncalls' = ncalls + 1
    /\ UNCHANGED <<State, VLOGGER, made, results, seen, log, ninstalls, ndispatch>>

\* Mutant of Entry: every method call looks the backend up in the global
\* registration, an explicit vlogger or not.
Entry_global(c) == "load"

\* Where a dispatch call finds its backend next: the global proxy calls
\* vlogger() for every method, an explicit vlogger is called directly.
Entry(c) == IF c.L = GlobalVLogger THEN "load" ELSE "explicit"

\* Mutant of enabled_metadata: the two strings change places.
enabled_metadata_swapped(surface, target) ==
    MetadataBuilder_target(MetadataBuilder_surface(MetadataBuilder_new, target), surface)

\* The Metadata enabled() asks the backend about.
enabled_metadata(surface, target) ==
    MetadataBuilder_target(MetadataBuilder_surface(MetadataBuilder_new, surface), target)

\* enabled(vlogger, surface, target), called on the backend r: the value it
\* returns.
enabled(r, surface, target) == VLog_enabled(r, enabled_metadata(surface, target))

\* The Metadata clear() asks enabled() about.
clear_metadata(target, surface) ==
    MetadataBuilder_surface(MetadataBuilder_target(MetadataBuilder_new, target), surface)

\* Variant: the Record is handed to the backend twice.
vlog_call_twice(t, r) ==
    /\ log' = IF r = NopRef THEN log
              ELSE LET e == [ref |-> r, method |-> "vlog", arg |-> call[t].record,
                             req |-> call[t].req]
                   IN  log \o <<e, e>>
    /\ Return(t)

\* vlog(): the Record is handed to the backend r, then the call returns.
vlog_call(t, r) ==
    /\ log' = VLog_vlog(r, call[t].record, call[t].req)
    /\ Return(t)

\* Variant: clear() goes on to the backend's clear whatever enabled() said.
clear_enabled_always(t, r) ==
    /\ log' = VLog_enabled_call(r, call[t].metadata, call[t].req)
    /\ pc' = [pc EXCEPT ![t] = Entry(call[t])]
    /\ call' = [call EXCEPT ![t] =
                    [by |-> r] @@ [@ EXCEPT !.phase = "clear", !.wrap = call[t].chain]]

\* Mutant of clear_enabled: the condition is negated.
clear_enabled_negated(t, r) ==
    /\ log' = VLog_enabled_call(r, call[t].metadata, call[t].req)
    /\ IF ~VLog_enabled(r, call[t].metadata)
       THEN /\ pc' = [pc EXCEPT ![t] = Entry(call[t])]
            /\ call' = [call EXCEPT ![t] =
                    [by |-> r] @@ [@ EXCEPT !.phase = "clear", !.wrap = call[t].chain]]
       ELSE Return(t)

\* clear(), the condition: enabled() is asked; only if it answers true does
\* the call go on to the backend's clear.
clear_enabled(t, r) ==
    /\ log' = VLog_enabled_call(r, call[t].metadata, call[t].req)
    /\ IF VLog_enabled(r, call[t].metadata)
       THEN /\ pc' = [pc EXCEPT ![t] = Entry(call[t])]
            /\ call' = [call EXCEPT ![t] =
                    [by |-> r] @@ [@ EXCEPT !.phase = "clear", !.wrap = call[t].chain]]
       ELSE Return(t)

\* clear(), the body of the if: the backend's clear gets the surface.
clear_clear(t, r) ==
    /\ log' = VLog_clear(r, call[t].req.surface, call[t].req)
    /\ Return(t)

\* enabled(): the backend r is asked about the Metadata; its answer is the
\* value the call returns.
enabled_call(t, r) ==
    /\ log' = VLog_enabled_call(r, call[t].metadata, call[t].req)
    /\ pc' = [pc EXCEPT ![t] = "ret"]
    /\ call' = [call EXCEPT ![t] =
            [ret |-> enabled(r, call[t].req.surface, call[t].req.target), by |-> r] @@ @]

\* Variant: a closed polyline ends after its last point, like an open one.
MoreSegments_open(c) == c.k <= Len(c.pts)

\* __line! on a point list: another vlog_line follows while points remain,
\* and, when the list ends with a comma, once more for the closing segment.
MoreSegments(c) == c.k <= Len(c.pts) \/ (c.closed /\ c.k = Len(c.pts) + 1)

\* The vlog_line call of a polyline hands its Record to the backend r; the
\* macro's next statement follows.
polyline_vlog(t, r) ==
    /\ log' = VLog_vlog(r, call[t].record, call[t].req)
    /\ IF MoreSegments(call[t])
       THEN /\ pc' = [pc EXCEPT ![t] = "segment"]
            /\ UNCHANGED call
       ELSE Return(t)

\* The method call thread t is about to make, made on the backend r.
Invoke(t, r) ==
    CASE call[t].op = "vlog" -> vlog_call(t, r)
      [] call[t].op = "polyline" -> polyline_vlog(t, r)
      [] call[t].op = "clear" /\ call[t].phase = "enabled" -> clear_enabled(t, r)
      [] call[t].op = "clear" /\ call[t].phase = "clear" -> clear_clear(t, r)
      [] call[t].op = "enabled" -> enabled_call(t, r)
      [] OTHER -> Return(t) /\ UNCHANGED log

\* What thread t does with the reference r its vlogger() call returned:
\* return it (a direct call), or call the backend method the proxy
\* forwards and return.  seen records the value loaded from STATE (st),
\* the reference returned (val), and what the VLOGGER slot held (slot) and
\* how many install calls had returned (done) at that moment.
Deliver(t, r, st) ==
    /\ seen' = seen \cup
            {[val |-> r, st |-> st, slot |-> VLOGGER, done |-> Cardinality(Returned)]}
    /\ Invoke(t, r)

\* Mutant of vlogger_load: the comparison is inverted.
vlogger_load_inverted(t) ==
    /\ pc[t] = "load"
    /\ IF State = INITIALIZED
       THEN Deliver(t, NopRef, State)
       ELSE /\ pc' = [pc EXCEPT ![t] = "read"]
            /\ UNCHANGED <<call, seen, log>>
    /\ UNCHANGED <<State, VLOGGER, made, results, ninstalls, ncalls, ndispatch>>

\* Mutant of vlogger_load: only UNINITIALIZED selects the no-op backend.
vlogger_load_uninit(t) ==
    /\ pc[t] = "load"
    /\ IF State = UNINITIALIZED
       THEN Deliver(t, NopRef, State)
       ELSE /\ pc' = [pc EXCEPT ![t] = "read"]
            /\ UNCHANGED <<call, seen, log>>
    /\ UNCHANGED <<State, VLOGGER, made, results, ninstalls, ncalls, ndispatch>>

\* if STATE.load(Acquire) != INITIALIZED { &NOP } else ...
\* Variant: vlogger() reads the slot as soon as an installation has begun.
vlogger_load_initializing(t) ==
    /\ pc[t] = "load"
    /\ IF State = UNINITIALIZED
       THEN Deliver(t, NopRef, State)
       ELSE /\ pc' = [pc EXCEPT ![t] = "read"]
            /\ UNCHANGED <<call, seen, log>>
    /\ UNCHANGED <<State, VLOGGER, made, results, ninstalls, ncalls, ndispatch>>

\* Mutant of vlogger_load: the outcome of the first lookup is kept; once a
\* lookup has answered with the no-op backend every later one does.
vlogger_load_cached(t) ==
    /\ pc[t] = "load"
    /\ IF State # INITIALIZED \/ \E e \in seen : e.val = NopRef
       THEN Deliver(t, NopRef, State)
       ELSE /\ pc' = [pc EXCEPT ![t] = "read"]
            /\ UNCHANGED <<call, seen, log>>
    /\ UNCHANGED <<State, VLOGGER, made, results, ninstalls, ncalls, ndispatch>>

\* vlogger(): if STATE.load(Acquire) != INITIALIZED the no-op backend is
\* returned, otherwise the slot is read next.
vlogger_load(t) ==
    /\ pc[t] = "load"
    /\ IF State # INITIALIZED
       THEN Deliver(t, NopRef, State)
       ELSE /\ pc' = [pc EXCEPT ![t] = "read"]
            /\ UNCHANGED <<call, seen, log>>
    /\ UNCHANGED <<State, VLOGGER, made, results, ninstalls, ncalls, ndispatch>>

\* A method call through a reference whose two words belong to different
\* backends is undefined behaviour: besides running some method it may
\* bring the process down.
Fault(t) ==
    /\ pc' = [pc EXCEPT ![t] = "fault"]
    /\ UNCHANGED <<call, seen, log>>

\* ... else { unsafe { VLOGGER } }
\* The read is not atomic: if the slot is being written (a data race, which
\* takes a set_vlogger_racy call overlapping another install) the value
\* read may be torn.
vlogger_read(t) ==
    /\ pc[t] = "read"
    /\ \/ Deliver(t, VLOGGER, INITIALIZED)
       \/ IsTorn(VLOGGER) /\ call[t].op # "vlogger" /\ Fault(t)
    /\ UNCHANGED <<State, VLOGGER, made, results, ninstalls, ncalls, ndispatch>>

\* ----------------------------------------------------- dispatch functions

\* Thread t calls a visual-kind dispatch function with the GlobalVLogger
\* proxy: the Record is built, then GlobalVLogger::vlog calls vlogger().
DispatchGlobal(t, fn, surface, target) ==
    /\ CanCall(t)
    /\ pc' = [pc EXCEPT ![t] = "load"]
    /\ call' = [call EXCEPT ![t] =
            [op |-> "vlog", L |-> GlobalVLogger, chain |-> <<>>, wrap |-> <<>>,
             req |-> DispatchRequest(fn, surface, target),
             record |-> DispatchRecord(fn, surface, target)]]
    /\ ncalls' = ncalls + 1
    /\ ndispatch' = [ndispatch EXCEPT !.global = @ + 1]
    /\ UNCHANGED <<State, VLOGGER, made, results, seen, log, ninstalls>>

\* clear!(surface) / clear!(target: .., surface): clear() with the global
\* proxy; its first method call is enabled().
ClearGlobal(t, target, surface) ==
    /\ CanCall(t)
    /\ pc' = [pc EXCEPT ![t] = "load"]
    /\ call' = [call EXCEPT ![t] =
            [op |-> "clear", L |-> GlobalVLogger, chain |-> <<>>, wrap |-> <<>>,
             phase |-> "enabled",
             req |-> [fn |-> "clear", target |-> target, surface |-> surface],
             metadata |-> clear_metadata(target, surface)]]
    /\ ncalls' = ncalls + 1
    /\ UNCHANGED <<State, VLOGGER, made, results, seen, log, ninstalls, ndispatch>>

\* The visual-kind dispatch call d with `vlogger: b`, its Record built.
ExplicitVlog(d, b) ==
    [op |-> "vlog", L |-> "&vlogger", chain |-> <<"&">>, wrap |-> <<"&">>,
     to |-> Ref(b), req |-> d, record |-> Dispatched(d)]

\* A visual-kind dispatch call with `vlogger: b`: the Record is built, the
\* backend is called next.
DispatchExplicit(t, d, b) ==
    /\ CanCall(t)
    /\ pc' = [pc EXCEPT ![t] = "explicit"]
    /\ call' = [call EXCEPT ![t] = ExplicitVlog(d, b)]
    /\ ncalls' = ncalls + 1
    /\ ndispatch' = [ndispatch EXCEPT !.explicit[b] = @ + 1]
    /\ UNCHANGED <<State, VLOGGER, made, results, seen, log, ninstalls>>

\* The clear() call with `vlogger: b`, before its first method call.
ExplicitClear(b, target, surface) ==
    [op |-> "clear", L |-> "&vlogger", chain |-> <<"&">>, wrap |-> <<"&">>,
     to |-> Ref(b), phase |-> "enabled",
     req |-> [fn |-> "clear", target |-> target, surface |-> surface],
     metadata |-> clear_metadata(target, surface)]

\* clear!(vlogger: b, surface) / clear!(vlogger: b, target: .., surface).
ClearExplicit(t, b, target, surface) ==
    /\ CanCall(t)
    /\ pc' = [pc EXCEPT ![t] = "explicit"]
    /\ call' = [call EXCEPT ![t] = ExplicitClear(b, target, surface)]
    /\ ncalls' = ncalls + 1
    /\ UNCHANGED <<State, VLOGGER, made, results, seen, log, ninstalls, ndispatch>>

\* vlog_enabled!(surface) / vlog_enabled!(target: .., surface): enabled()
\* with the global proxy.
EnabledGlobal(t, target, surface) ==
    /\ CanCall(t)
    /\ pc' = [pc EXCEPT ![t] = "load"]
    /\ call' = [call EXCEPT ![t] =
            [op |-> "enabled", L |-> GlobalVLogger, chain |-> <<>>, wrap |-> <<>>,
             req |-> [fn |-> "enabled", target |-> target, surface |-> surface],
             metadata |-> enabled_metadata(surface, target)]]
    /\ ncalls' = ncalls + 1
    /\ UNCHANGED <<State, VLOGGER, made, results, seen, log, ninstalls, ndispatch>>

\* The enabled() call with `vlogger: b`.
ExplicitEnabled(b, target, surface) ==
    [op |-> "enabled", L |-> "&vlogger", chain |-> <<"&">>, wrap |-> <<"&">>,
     to |-> Ref(b),
     req |-> [fn |-> "enabled", target |-> target, surface |-> surface],
     metadata |-> enabled_metadata(surface, target)]

\* vlog_enabled!(vlogger: b, surface) / vlog_enabled!(vlogger: b, target: .., surface).
EnabledExplicit(t, b, target, surface) ==
    /\ CanCall(t)
    /\ pc' = [pc EXCEPT ![t] = "explicit"]
    /\ call' = [call EXCEPT ![t] = ExplicitEnabled(b, target, surface)]
    /\ ncalls' = ncalls + 1
    /\ UNCHANGED <<State, VLOGGER, made, results, seen, log, ninstalls, ndispatch>>

\* polyline! on the point list pts (closed: the list ends with a comma),
\* before its first vlog_line: `let mut last = $pos1; let first = last.clone();`
PolylineCall(L, to, pts, closed, size, color, style, surface, target) ==
    [op |-> "polyline", L |-> L, to |-> to, k |-> 2, last |-> pts[1], first |-> pts[1],
     chain |-> IF L = GlobalVLogger THEN <<>> ELSE <<"&">>,
     wrap |-> IF L = GlobalVLogger THEN <<>> ELSE <<"&">>,
     req |-> [fn |-> "polyline", pts |-> pts, closed |-> closed, size |-> size,
              color |-> color, style |-> style, surface |-> surface, target |-> target,
              segment |-> <<>>],
     pts |-> pts, closed |-> closed, record |-> <<>>]

\* Mutant of polyline_next: every segment carries the text "seg".
polyline_next_text(t) ==
    /\ pc[t] = "segment"
    /\ LET c == call[t]
           next == IF c.k <= Len(c.pts) THEN c.pts[c.k] ELSE c.first
           d == Request("vlog_line", "seg", c.last, next, c.req.size, c.req.color,
                        c.req.style, c.req.surface, c.req.target)
       IN  /\ call' = [call EXCEPT ![t].record = Dispatched(d), ![t].req.segment = d,
                                   ![t].last = next, ![t].k = c.k + 1,
                                   ![t].wrap = c.chain]
           /\ pc' = [pc EXCEPT ![t] = Entry(c)]
           /\ ndispatch' = IF c.L = GlobalVLogger
                           THEN [ndispatch EXCEPT !.global = @ + 1]
                           ELSE [ndispatch EXCEPT !.explicit[c.to.data] = @ + 1]
    /\ UNCHANGED <<State, VLOGGER, made, results, seen, log, ninstalls, ncalls>>

\* The next vlog_line of a polyline: from `last` to the next point, or, after
\* the last point of a closed one, to `first`; then `last = next`.
polyline_next(t) ==
    /\ pc[t] = "segment"
    /\ LET c == call[t]
           next == IF c.k <= Len(c.pts) THEN c.pts[c.k] ELSE c.first
           d == Request("vlog_line", "", c.last, next, c.req.size, c.req.color,
                        c.req.style, c.req.surface, c.req.target)
       IN  /\ call' = [call EXCEPT ![t].record = Dispatched(d), ![t].req.segment = d,
                                   ![t].last = next, ![t].k = c.k + 1,
                                   ![t].wrap = c.chain]
           /\ pc' = [pc EXCEPT ![t] = Entry(c)]
           /\ ndispatch' = IF c.L = GlobalVLogger
                           THEN [ndispatch EXCEPT !.global = @ + 1]
                           ELSE [ndispatch EXCEPT !.explicit[c.to.data] = @ + 1]
    /\ UNCHANGED <<State, VLOGGER, made, results, seen, log, ninstalls, ncalls>>

\* Mutant of decorator_forward: the decorator returns without calling the
\* wrapped backend.
decorator_forward_drop(t) ==
    /\ pc[t] = "explicit"
    /\ call[t].wrap # <<>>
    /\ Return(t)
    /\ UNCHANGED <<State, VLOGGER, made, results, seen, log, ninstalls, ncalls,
                   ndispatch>>

\* A method call on a decorated backend (&T, Box<T>, Arc<T>): the
\* decorator's method calls the same method of what it wraps, once, with
\* the argument it was given: (**self).enabled(metadata),
\* (**self).vlog(record), (**self).clear(surface).
decorator_forward(t) ==
    /\ pc[t] = "explicit"
    /\ call[t].wrap # <<>>
    /\ call' = [call EXCEPT ![t].wrap = Tail(@)]
    /\ UNCHANGED <<State, VLOGGER, pc, made, results, seen, log, ninstalls, ncalls,
                   ndispatch>>

\* enabled() returns the backend's answer to its caller.
enabled_return(t) ==
    /\ pc[t] = "ret"
    /\ Return(t)
    /\ UNCHANGED <<State, VLOGGER, made, results, seen, log, ninstalls, ncalls,
                   ndispatch>>

\* A method call that has reached the backend itself.
explicit_call(t) ==
    /\ pc[t] = "explicit"
    /\ call[t].wrap = <<>>
    /\ Invoke(t, call[t].to)
    /\ UNCHANGED <<State, VLOGGER, made, results, seen, ninstalls, ncalls, ndispatch>>

\* ---------------------------------------------------------- specification

\* The steps of the install calls and of vlogger().
Step(t) ==
    \/ set_vlogger_inner_cas(t)
    \/ set_vlogger_inner_write(t)
    \/ set_vlogger_inner_write2(t)
    \/ set_vlogger_inner_store(t)
    \/ set_vlogger_inner_spin(t)
    \/ vlogger_load(t)
    \/ vlogger_read(t)

\* The registration model races installs and vlogger() with point! and
\* clear! through the global proxy; every visual kind is dispatched in the
\* sequential model below.
Next ==
    \E t \in Threads :
        \/ \E op \in {"set_vlogger", "set_boxed_vlogger"} : CallSetVLogger(t, op)
        \/ CallVlogger(t)
        \/ \E fn \in {"vlog_point"}, surface \in Surfaces, target \in {ModulePath} :
              DispatchGlobal(t, fn, surface, target)
        \/ \E surface \in Surfaces, target \in {ModulePath} :
              ClearGlobal(t, target, surface)
        \/ Step(t)

Spec == Init /\ [][Next]_vars

\* Fair scheduling: a thread that can take a step of its call is eventually
\* run (a turn of the spin loop that changes nothing does not count).
FairSpec == Spec /\ \A t \in Threads : WF_vars(Step(t))

\* The dispatch layer in a sequential program: one thread installs a
\* backend, dispatches every visual kind and clears, through the global proxy
\* and with backends given explicitly.

\* ------------------------------------------- models with set_vlogger_racy

\* The steps of set_vlogger_racy.
StepRacy(t) ==
    \/ set_vlogger_racy_load(t)
    \/ set_vlogger_racy_write(t)
    \/ set_vlogger_racy_write2(t)
    \/ set_vlogger_racy_store(t)

\* Some thread is inside set_vlogger, set_boxed_vlogger or set_vlogger_racy.
InstallerRunning ==
    \E t \in Threads :
        pc[t] \in {"cas", "write", "write2", "store", "spin",
                   "rload", "rwrite", "rwrite2", "rstore"}

\* The caller keeps the safety contract of set_vlogger_racy: an install
\* call of any kind starts only when no other install call is running.
\* vlogger() and point! through the global proxy run concurrently with it.
\* (No install call meets another, so no call reaches the spin loop.)
NextRacy ==
    \E t \in Threads :
        \/ ~InstallerRunning /\ CallSetVLoggerRacy(t)
        \/ ~InstallerRunning /\ CallSetVLogger(t, "set_vlogger")
        \/ CallVlogger(t)
        \/ \E surface \in Surfaces : DispatchGlobal(t, "vlog_point", surface, ModulePath)
        \/ set_vlogger_inner_cas(t)
        \/ set_vlogger_inner_write(t)
        \/ set_vlogger_inner_write2(t)
        \/ set_vlogger_inner_store(t)
        \/ StepRacy(t)
        \/ vlogger_load(t)
        \/ vlogger_read(t)

SpecRacy == Init /\ [][NextRacy]_vars

\* The caller does not keep the contract: set_vlogger_racy calls overlap
\* each other and the other install calls in every way, on MaxRaceThreads
\* threads, next to vlogger() and to point!, clear! and vlog_enabled!
\* through the global proxy.
NextRace ==
    \E t \in 1..MaxRaceThreads :
        \/ \E op \in {"set_vlogger", "set_boxed_vlogger"} : CallSetVLogger(t, op)
        \/ CallSetVLoggerRacy(t)
        \/ CallVlogger(t)
        \/ DispatchGlobal(t, "vlog_point", "S", ModulePath)
        \/ ClearGlobal(t, ModulePath, "S")
        \/ EnabledGlobal(t, ModulePath, "S")
        \/ enabled_return(t)
        \/ Step(t)
        \/ StepRacy(t)

SpecRace == Init /\ [][NextRace]_vars

MainThread == 1

StepDispatch(t) ==
    \/ set_vlogger_inner_cas(t)
    \/ set_vlogger_inner_write(t)
    \/ set_vlogger_inner_write2(t)
    \/ set_vlogger_inner_store(t)
    \/ vlogger_load(t)
    \/ vlogger_read(t)
    \/ decorator_forward(t)
    \/ explicit_call(t)
    \/ enabled_return(t)

NextDispatch ==
    \E t \in {MainThread} :
        \/ /\ ncalls < MaxDispatch
           /\ \/ CallSetVLogger(t, "set_vlogger")
              \/ \E fn \in VisualFns, surface \in Surfaces :
                    DispatchGlobal(t, fn, surface, ModulePath)
              \/ \E surface \in Surfaces, target \in Targets :
                    ClearGlobal(t, target, surface)
              \/ \E fn \in VisualFns, surface \in Surfaces, b \in Backends :
                    DispatchExplicit(t, DispatchRequest(fn, surface, ModulePath), b)
              \/ \E surface \in Surfaces, target \in Targets, b \in Backends :
                    ClearExplicit(t, b, target, surface)
              \/ \E surface \in Surfaces, target \in Targets :
                    EnabledGlobal(t, target, surface)
              \/ \E surface \in Surfaces, target \in Targets, b \in Backends :
                    EnabledExplicit(t, b, target, surface)
        \/ StepDispatch(t)

SpecDispatch == Init /\ [][NextDispatch]_vars

\* The dispatch functions as functions of their arguments: one call of a
\* visual-kind dispatch function or of polyline! is in progress, drawn from
\* the positions and point lists below and given the always-enabled backend;
\* the steps carry it out.
AlwaysEnabled == 2
Coords == {1, 2}
Positions == UNION {[1..n -> Coords] : n \in 0..MaxCoords}
PolyPoints == {<<0, 0, 0>>, <<1, 0, 0>>, <<1, 1, 1>>}
PointLists == UNION {[1..n -> PolyPoints] : n \in 2..MaxPoints}

CoordCalls ==
    {ExplicitVlog(Request("vlog_point", "", pos, <<>>, 5, "Base", "Point", "S", ModulePath),
                  AlwaysEnabled) : pos \in Positions}
    \cup
    {ExplicitVlog(Request("vlog_label", "pos", pos, <<>>, 12, "Base", "Flexible", "S",
                          ModulePath), AlwaysEnabled) : pos \in Positions}
    \cup
    {ExplicitVlog(Request("vlog_line", "", pos1, pos2, 5, "Base", "Simple", "S", ModulePath),
                  AlwaysEnabled) : pos1 \in Positions, pos2 \in Positions}

PolylineStyles == {"Simple", "Dashed"}
\* polyline!(surface, (p1, p2, ..), size, color, style) as a statement: a
\* point list is accepted only by the arm without vlogger: and target:, so
\* the segments go through the global proxy with module_path!() as target.
PolylineCalls ==
    {PolylineCall(GlobalVLogger, NopRef, pts, closed, 5, "Base", style, "S",
                  ModulePath) :
        pts \in PointLists, closed \in BOOLEAN, style \in PolylineStyles}

\* polyline! with exactly two points and a text: the one arm of __line! that
\* passes the caller's format arguments on, in a single vlog_line.
LineTextCalls ==
    {ExplicitVlog(Request("vlog_line", "seg", p1, p2, 5, "Base", style, "S", target),
                  AlwaysEnabled) :
        p1 \in PolyPoints, p2 \in PolyPoints, style \in PolylineStyles,
        target \in Targets}

\* Each visual kind with and without a target override.
TargetCalls ==
    {ExplicitVlog(DispatchRequest(fn, surface, target), AlwaysEnabled) :
        fn \in VisualFns, surface \in Surfaces, target \in Targets}

\* The always-enabled backend has been installed (the set_vlogger call for
\* backend 1 found the state INITIALIZED and failed), and one dispatch call
\* is in progress.
InitCoords ==
    /\ State = INITIALIZED
    /\ VLOGGER = Ref(AlwaysEnabled)
    /\ \E c \in CoordCalls \cup PolylineCalls \cup TargetCalls \cup LineTextCalls :
          /\ call = [t \in Threads |-> IF t = MainThread THEN c ELSE NoCall]
          /\ pc = [t \in Threads |->
                    IF t # MainThread THEN "idle"
                    ELSE IF c.op = "polyline" THEN "segment" ELSE "explicit"]
          /\ ndispatch = [global |-> 0,
                          explicit |-> [b \in Backends |->
                              IF b = AlwaysEnabled /\ c.op = "vlog" THEN 1 ELSE 0]]
    /\ made = {AlwaysEnabled}
    /\ results = [b \in Backends |->
            CASE b = AlwaysEnabled ->
                    [st0 |-> UNINITIALIZED, cas |-> UNINITIALIZED, val |-> "Ok"]
              [] b < AlwaysEnabled ->
                    [st0 |-> UNINITIALIZED, cas |-> INITIALIZED, val |-> "Err"]
              [] OTHER -> NoCall]
    /\ seen = {}
    /\ log = <<>>
    /\ ninstalls = AlwaysEnabled
    /\ ncalls = AlwaysEnabled + 1

NextCoords ==
    \E t \in {MainThread} :
        \/ decorator_forward(t)
        \/ explicit_call(t)
        \/ polyline_next(t)
        \/ vlogger_load(t)
        \/ vlogger_read(t)

SpecCoords == InitCoords /\ [][NextCoords]_vars

\* The builders on their own: one thread creates a RecordBuilder and calls
\* its setters in any order, any number of times.  call[t].record is the
\* builder's record; call[t].set remembers, beside it, the argument each
\* field's setter was last given (None while no setter of the field ran).
RecordBuilder_build(r) == r
MetadataBuilder_build(m) == m

Metadata_surface(m) == m.surface
Metadata_target(m) == m.target

\* MaybeStaticStr::get
MaybeStaticStr_get(s) == s.s

Record_args(rec) == rec.args
Record_visual(rec) == rec.visual
Record_color(rec) == rec.color
Record_size(rec) == rec.size
Record_metadata(rec) == rec.metadata
Record_target(rec) == Metadata_target(rec.metadata)
Record_surface(rec) == Metadata_surface(rec.metadata)
Record_module_path(rec) ==
    IF rec.module_path = None THEN None ELSE Some(MaybeStaticStr_get(rec.module_path[1]))
\* Variant: module_path_static returns the string whichever setter gave it.
Record_module_path_static_any(rec) ==
    IF rec.module_path # None THEN Some(rec.module_path[1].s) ELSE None
Record_module_path_static(rec) ==
    IF rec.module_path # None /\ rec.module_path[1].static
    THEN Some(rec.module_path[1].s) ELSE None
Record_file(rec) ==
    IF rec.file = None THEN None ELSE Some(MaybeStaticStr_get(rec.file[1]))
Record_file_static(rec) ==
    IF rec.file # None /\ rec.file[1].static THEN Some(rec.file[1].s) ELSE None
Record_line(rec) == rec.line

BuilderVisuals ==
    {[kind |-> "Message"],
     [kind |-> "Point", x |-> 1, y |-> 2, z |-> 3, style |-> "PointCross"],
     [kind |-> "Line", x1 |-> 1, y1 |-> 2, z1 |-> 3, x2 |-> 4, y2 |-> 5, z2 |-> 6,
      style |-> "Dashed"],
     [kind |-> "Label", x |-> 3, y |-> 2, z |-> 1, alignment |-> "Center"]}
BuilderColors == {"Base", "Hex(0x00000000)", "Hex(0xFFFFFFFF)"}
BuilderSizes == {12, 5}
BuilderArgs == {"", "text"}
BuilderTargets == {"", "tgt"}
BuilderSurfaces == {"", "S"}
BuilderPaths == {None, Some("app")}
BuilderFiles == {None, Some("app.rs")}
BuilderLines == {None, Some(7)}

Unset ==
    [visual |-> None, color |-> None, size |-> None, args |-> None, target |-> None,
     surface |-> None, module_path |-> None, file |-> None, line |-> None]

\* What is remembered of a module_path / file setter call: its argument, and
\* whether a string was given through the 'static setter.
PathSet(static, path) == Some([static |-> static /\ path # None, path |-> path])

\* Record::builder() / RecordBuilder::new()
Record_builder(t) ==
    /\ CanCall(t)
    /\ pc' = [pc EXCEPT ![t] = "builder"]
    /\ call' = [call EXCEPT ![t] =
            [op |-> "builder", record |-> RecordBuilder_new, set |-> Unset]]
    /\ ncalls' = ncalls + 1
    /\ UNCHANGED <<State, VLOGGER, made, results, seen, log, ninstalls, ndispatch>>

\* A setter call on t's builder: the record becomes rec, the memory set.
Setter(t, rec, set) ==
    /\ pc[t] = "builder"
    /\ call' = [call EXCEPT ![t].record = rec, ![t].set = set]
    /\ UNCHANGED <<State, VLOGGER, pc, made, results, seen, log, ninstalls, ncalls,
                   ndispatch>>

builder_visual(t, visual) ==
    Setter(t, RecordBuilder_visual(call[t].record, visual),
           [call[t].set EXCEPT !.visual = Some(visual)])
builder_color(t, color) ==
    Setter(t, RecordBuilder_color(call[t].record, color),
           [call[t].set EXCEPT !.color = Some(color)])
builder_size(t, size) ==
    Setter(t, RecordBuilder_size(call[t].record, size),
           [call[t].set EXCEPT !.size = Some(size)])
builder_args(t, args) ==
    Setter(t, RecordBuilder_args(call[t].record, args),
           [call[t].set EXCEPT !.args = Some(args)])
\* .metadata(MetadataBuilder::new().surface(surface).target(target).build())
builder_metadata(t, surface, target) ==
    Setter(t, RecordBuilder_metadata(call[t].record,
                  MetadataBuilder_build(MetadataBuilder_target(
                      MetadataBuilder_surface(MetadataBuilder_new, surface), target))),
           [call[t].set EXCEPT !.surface = Some(surface), !.target = Some(target)])
builder_surface(t, surface) ==
    Setter(t, RecordBuilder_surface(call[t].record, surface),
           [call[t].set EXCEPT !.surface = Some(surface)])
builder_target(t, target) ==
    Setter(t, RecordBuilder_target(call[t].record, target),
           [call[t].set EXCEPT !.target = Some(target)])
builder_module_path(t, path) ==
    Setter(t, RecordBuilder_module_path(call[t].record, path),
           [call[t].set EXCEPT !.module_path = PathSet(FALSE, path)])
builder_module_path_static(t, path) ==
    Setter(t, RecordBuilder_module_path_static(call[t].record, path),
           [call[t].set EXCEPT !.module_path = PathSet(TRUE, path)])
builder_file(t, file) ==
    Setter(t, RecordBuilder_file(call[t].record, file),
           [call[t].set EXCEPT !.file = PathSet(FALSE, file)])
builder_file_static(t, file) ==
    Setter(t, RecordBuilder_file_static(call[t].record, file),
           [call[t].set EXCEPT !.file = PathSet(TRUE, file)])
builder_line(t, line) ==
    Setter(t, RecordBuilder_line(call[t].record, line),
           [call[t].set EXCEPT !.line = Some(line)])

NextBuilder ==
    \E t \in {MainThread} :
        \/ Record_builder(t)
        \/ \E visual \in BuilderVisuals : builder_visual(t, visual)
        \/ \E color \in BuilderColors : builder_color(t, color)
        \/ \E size \in BuilderSizes : builder_size(t, size)
        \/ \E args \in BuilderArgs : builder_args(t, args)
        \/ \E surface \in BuilderSurfaces, target \in BuilderTargets :
              builder_metadata(t, surface, target)
        \/ \E surface \in BuilderSurfaces : builder_surface(t, surface)
        \/ \E target \in BuilderTargets : builder_target(t, target)
        \/ \E path \in BuilderPaths : builder_module_path(t, path)
        \/ \E path \in BuilderPaths : builder_module_path_static(t, path)
        \/ \E file \in BuilderFiles : builder_file(t, file)
        \/ \E file \in BuilderFiles : builder_file_static(t, file)
        \/ \E line \in BuilderLines : builder_line(t, line)

SpecBuilder == Init /\ [][NextBuilder]_vars

\* ------------------------------------------------------ decorator model

\* The decorators of lib.rs: impl VLog for &T, Box<T>, Arc<T>.
DecoratorKinds == {"&", "Box", "Arc"}
DecoratorChains == UNION {[1..n -> DecoratorKinds] : n \in 0..MaxWrap}

\* The dispatch call c with `vlogger: d`, where d is the backend of c inside
\* the decorators of chain, outermost first; __vlog_vlogger! adds one `&`.
Decorated(c, chain) ==
    [c EXCEPT !.chain = <<"&">> \o chain, !.wrap = <<"&">> \o chain]

DecoratorCalls ==
    {Decorated(ExplicitVlog(DispatchRequest("vlog_point", surface, ModulePath), b), chain) :
        surface \in Surfaces, b \in Backends, chain \in DecoratorChains}
    \cup
    {Decorated(ExplicitClear(b, ModulePath, surface), chain) :
        surface \in Surfaces, b \in Backends, chain \in DecoratorChains}
    \cup
    {Decorated(ExplicitEnabled(b, ModulePath, surface), chain) :
        surface \in Surfaces, b \in Backends, chain \in DecoratorChains}

\* One dispatch call on a decorated backend, about to make its first
\* method call.
InitDecorators ==
    /\ State = UNINITIALIZED
    /\ VLOGGER = NopRef
    /\ \E c \in DecoratorCalls :
          /\ call = [t \in Threads |-> IF t = MainThread THEN c ELSE NoCall]
          /\ pc = [t \in Threads |-> IF t = MainThread THEN "explicit" ELSE "idle"]
          /\ ndispatch = [global |-> 0,
                          explicit |-> [b \in Backends |->
                              IF Ref(b) = c.to /\ c.op = "vlog" THEN 1 ELSE 0]]
    /\ made = {}
    /\ results = [b \in Backends |-> NoCall]
    /\ seen = {}
    /\ log = <<>>
    /\ ninstalls = 0
    /\ ncalls = 1

NextDecorators ==
    \E t \in {MainThread} :
        \/ decorator_forward(t)
        \/ explicit_call(t)
        \/ enabled_return(t)

SpecDecorators == InitDecorators /\ [][NextDecorators]_vars

\* ------------------------------------------------------- claim vocabulary

Installing(t) == pc[t] \in {"cas", "write", "write2", "store", "spin"}
\* The thread whose compare-and-set succeeded and that has not stored yet.
Winning(t) == pc[t] \in {"write", "write2", "store"}
ReturnedOk == {b \in Returned : results[b].val = "Ok"}
ReturnedErr == {b \in Returned : results[b].val = "Err"}
Started == 1..ninstalls
Quiescent == \A t \in Threads : ~Installing(t)

\* ------------------------------------------------------------------ claims

\* C1: for any number of concurrent set_vlogger / set_boxed_vlogger calls
\* with distinct backends, the compare-and-set UNINITIALIZED -> INITIALIZING
\* succeeds for exactly one caller: at most one call is past a successful
\* compare-and-set or has returned Ok, and once every started call has
\* returned, exactly one returned Ok and every other one returned Err.
C1_ExactlyOneInstallSucceeds ==
    /\ Cardinality({t \in Threads : Winning(t)}) + Cardinality(ReturnedOk) <= 1
    /\ (Quiescent /\ ninstalls >= 1) =>
            /\ Returned = Started
            /\ Cardinality(ReturnedOk) = 1
            /\ ReturnedErr = Started \ ReturnedOk

\* C1 witness: three install calls have all returned, one of them Ok, and a
\* loser ran its compare-and-set while the winner was still installing.
C1_Witness ==
    /\ Quiescent
    /\ ninstalls = MaxCalls
    /\ Cardinality(ReturnedOk) = 1
    /\ \E b \in ReturnedErr : results[b].cas = INITIALIZING

\* C2: a vlogger() call that returns once install calls have returned gets
\* the backend passed to the single call that returned Ok; and no vlogger()
\* call ever returns the backend of a call that returned Err.
C2_VloggerReturnsWinner ==
    /\ \A e \in seen : e.done >= 1 =>
            \E b \in ReturnedOk : e.val = Ref(b)
    /\ \A e \in seen : \A b \in ReturnedErr :
            e.val.data # b /\ e.val.vtable # b

\* C2 witness: two install calls raced, both have returned, and a vlogger()
\* call that returned after both got the backend of the one that won.
C2_Witness ==
    \E e \in seen :
        /\ e.done >= 2
        /\ \E b \in ReturnedOk : e.val = Ref(b)
        /\ \E b \in ReturnedErr : results[b].cas = INITIALIZING

\* C3: no reader observes a partial installation.  A thread is about to
\* read the VLOGGER slot only after loading INITIALIZED, and then the slot
\* holds a whole reference to a user backend; every reference vlogger() has
\* returned is the no-op backend or the whole reference of the install that
\* won; the slot is written only while STATE stays INITIALIZING; and the
\* store of INITIALIZED finds the slot completely written.
C3_ReaderSeesPublished ==
    /\ \A t \in Threads : pc[t] = "read" =>
            State = INITIALIZED /\ ~IsTorn(VLOGGER) /\ VLOGGER # NopRef
    /\ \A e \in seen :
            \/ e.val = NopRef
            \/ /\ e.st = INITIALIZED
               /\ \E b \in ReturnedOk : e.val = Ref(b)
C3_WriteBeforePublish ==
    /\ VLOGGER' # VLOGGER => State = INITIALIZING /\ State' = INITIALIZING
    /\ (State # INITIALIZED /\ State' = INITIALIZED) =>
            /\ VLOGGER' = VLOGGER
            /\ \E b \in Backends : VLOGGER = Ref(b)
C3_NoPartialInstallation == []C3_ReaderSeesPublished /\ [][C3_WriteBeforePublish]_vars

\* C3 witness: a vlogger() call returned the no-op backend while the slot
\* was half written, and a later one returned the published backend.
C3_Witness ==
    /\ \E e \in seen : e.val = NopRef /\ IsTorn(e.slot)
    /\ \E e \in seen : e.val # NopRef

\* C4: a backend's vlog is invoked only for a Record whose Metadata its
\* enabled accepts: for a backend whose enabled returns false, no
\* visual-kind dispatch function calls vlog.
C4_VlogOnlyWhenEnabled ==
    \A i \in DOMAIN log :
        log[i].method = "vlog" => VLog_enabled(log[i].ref, log[i].arg.metadata)

\* C5: while STATE is UNINITIALIZED or INITIALIZING vlogger() returns the
\* no-op backend: a call that loaded such a value returned the no-op
\* backend, no thread is on its way to read the slot, and no call has
\* returned anything else so far, whatever the slot holds.
C5_NopUntilInitialized ==
    /\ \A e \in seen : e.st # INITIALIZED => e.val = NopRef
    /\ State # INITIALIZED =>
            /\ \A e \in seen : e.val = NopRef
            /\ \A t \in Threads : pc[t] # "read"

\* C5 witness: an install is in flight with the slot already written, and
\* a vlogger() call that loaded INITIALIZING with the slot in that state
\* returned the no-op backend.
C5_Witness ==
    /\ State = INITIALIZING
    /\ \E b \in Backends : VLOGGER = Ref(b)
    /\ \E e \in seen : e.st = INITIALIZING /\ e.slot = VLOGGER /\ e.val = NopRef

\* C6: INITIALIZED is terminal.  No step changes STATE or the VLOGGER slot
\* once STATE = INITIALIZED, and once a vlogger() call has returned a
\* backend B other than the no-op one, the slot holds B for good and every
\* vlogger() call that returns afterwards returns through the slot read.
C6_InitializedTerminalStep ==
    /\ State = INITIALIZED => State' = INITIALIZED /\ VLOGGER' = VLOGGER
    /\ \A t \in Threads :
            (pc[t] \in {"load", "read"} /\ pc'[t] = "idle"
                /\ \E e \in seen : e.val # NopRef)
            => /\ pc[t] = "read"
               /\ \A e \in seen' : e.val # NopRef => e.val = VLOGGER
C6_InitializedTerminal ==
    /\ [](\A e \in seen : e.val # NopRef => State = INITIALIZED /\ VLOGGER = e.val)
    /\ [][C6_InitializedTerminalStep]_vars

\* C6 witness: a vlogger() call returned the installed backend, a later
\* install attempt was rejected, and the slot still holds that backend.
C6_Witness ==
    /\ \E e \in seen : e.val # NopRef /\ e.val = VLOGGER /\ e.done = 1
    /\ \E b \in ReturnedErr : results[b].st0 = INITIALIZED

\* C7: an install call returns Err exactly if its compare-and-set found
\* STATE other than UNINITIALIZED; so a call that started when STATE was
\* already INITIALIZING or INITIALIZED never returned Ok, retried or not.
C7_ErrIffNotUninitialized ==
    \A b \in Returned :
        /\ results[b].val = "Err" <=> results[b].cas # UNINITIALIZED
        /\ results[b].val = "Ok" <=> results[b].cas = UNINITIALIZED
        /\ results[b].st0 # UNINITIALIZED => results[b].val = "Err"

\* C7 witness: the install succeeded, one call that found INITIALIZING and
\* one that started after INITIALIZED were both rejected.
C7_Witness ==
    /\ ReturnedOk # {}
    /\ \E b \in ReturnedErr : results[b].cas = INITIALIZING
    /\ \E b \in ReturnedErr : results[b].st0 = INITIALIZED

\* C8: a call that returns Err leaves STATE and the VLOGGER slot as they
\* were: none of its steps (the failed compare-and-set, the spin loop, the
\* return) changes either; the rejected backend is in no word of the slot
\* and was never returned by vlogger(); and the slot keeps the backend of
\* the call that returned Ok.
C8_LoserStep ==
    \A t \in Threads :
        (pc[t] \in {"cas", "spin"} /\ pc'[t] \in {"spin", "idle"} /\ pc'[t] # pc[t])
        => State' = State /\ VLOGGER' = VLOGGER
C8_RejectedNeverStored ==
    /\ \A b \in ReturnedErr :
            /\ VLOGGER.data # b /\ VLOGGER.vtable # b
            /\ \A e \in seen : e.val.data # b /\ e.val.vtable # b
    /\ \A b \in ReturnedOk : State = INITIALIZED /\ VLOGGER = Ref(b)
C8_ErrLeavesStateUnchanged == []C8_RejectedNeverStored /\ [][C8_LoserStep]_vars

\* C8 witness: after a successful install and a rejected one, vlogger()
\* returned the first-installed backend.
C8_Witness ==
    \E b \in ReturnedOk :
        /\ ReturnedErr # {}
        /\ \E e \in seen : e.val = Ref(b) /\ e.done = 2

\* C9: whenever an install call returns, with Ok or with Err, STATE is
\* INITIALIZED at that moment; so STATE = INITIALIZED in every state in
\* which some install call has returned, and a vlogger() call that returns
\* after an install call has returned gets an installed backend.
C9_ReturnStep ==
    \A b \in Backends :
        (results[b] = NoCall /\ results'[b] # NoCall) => State' = INITIALIZED
C9_InitializedAtReturn ==
    /\ [][C9_ReturnStep]_vars
    /\ [](Returned # {} => State = INITIALIZED)
    /\ [](\A e \in seen : e.done >= 1 => e.val # NopRef /\ ~IsTorn(e.val))

\* C9 witness: a loser that found INITIALIZING and went through the spin
\* loop has returned, and a vlogger() call that returned after it got an
\* installed backend.
C9_Witness ==
    /\ \E b \in ReturnedErr : results[b].cas = INITIALIZING
    /\ \E e \in seen : e.done >= 1 /\ e.val # NopRef

\* C10: under fair scheduling every call terminates, the spinning callers
\* included (the calls of a run being finitely many, that is: from some
\* point on every thread is idle); a spinning caller waits only for the
\* thread that won the compare-and-set, which is then between the slot
\* write and the store; and no step of any other position of any call
\* waits for anything.
C10_NoWait ==
    /\ \A t \in Threads :
            pc[t] \notin {"idle", "spin"} => ENABLED <<Step(t)>>_vars
    /\ \A t \in Threads :
            pc[t] = "spin" =>
                \/ ENABLED <<Step(t)>>_vars
                \/ State = INITIALIZING /\ \E w \in Threads : Winning(w)
C10_EveryCallTerminates ==
    /\ <>[](\A t \in Threads : pc[t] = "idle")
    /\ []C10_NoWait

\* C10 witness: a caller that went through the spin loop has returned Err.
C10_Witness ==
    /\ Quiescent
    /\ \E b \in ReturnedErr : results[b].cas = INITIALIZING

-----------------------------------------------------------------------------
\* C11: an install call whose compare-and-set observes INITIALIZED returns Err
\* in that very step: it never enters the spin loop and neither State nor the
\* VLOGGER slot is written; only calls that observed INITIALIZING ever spin.
C11_LateStep ==
    \A t \in Threads :
        (pc[t] = "cas" /\ pc'[t] # "cas" /\ State = INITIALIZED) =>
            /\ pc'[t] = "idle"
            /\ results'[call[t].b] # NoCall
            /\ results'[call[t].b].val = "Err"
            /\ results'[call[t].b].cas = INITIALIZED
            /\ State' = State
            /\ VLOGGER' = VLOGGER

C11_SpinOnlyOnInitializing ==
    \A t \in Threads : pc[t] = "spin" => call[t].cas = INITIALIZING

C11_LateInstallReturnsAtOnce == []C11_SpinOnlyOnInitializing /\ [][C11_LateStep]_vars

\* A call that found INITIALIZED at its compare-and-set has returned Err.
C11_Witness ==
    \E b \in ReturnedErr : results[b].cas = INITIALIZED /\ b \notin made

-----------------------------------------------------------------------------
\* Every Metadata the dispatch layer can build.
Metadatas == [surface : Surfaces \cup {""}, target : Targets \cup {""}]

\* C12: while no install call has been made, every vlogger() returned the
\* no-op backend, whose enabled is false for every Metadata; no backend has
\* received any call, State and the slot are untouched, and a clear through
\* the global proxy never gets past its enabled() question.
C12_NopBeforeInstall ==
    ninstalls = 0 =>
        /\ State = UNINITIALIZED
        /\ VLOGGER = NopRef
        /\ log = <<>>
        /\ \A e \in seen :
              /\ e.val = NopRef
              /\ \A m \in Metadatas : ~VLog_enabled(e.val, m)
        /\ \A t \in Threads : call[t].op = "clear" => call[t].phase = "enabled"

\* A point! has been dropped and a clear! is under way, with nothing installed.
C12_Witness ==
    /\ ninstalls = 0
    /\ ncalls = 2
    /\ ndispatch.global = 1
    /\ pc[1] = "idle"
    /\ call[2].op = "clear"
    /\ seen # {}
    /\ log = <<>>

-----------------------------------------------------------------------------
\* C13: a backend receives a call from the global path only in a step taken
\* with State = INITIALIZED, one call per step, made by a dispatch call that
\* is in progress and has read the slot; a dispatch that loaded another State
\* ends there, leaving the log as it is, so nothing is kept for later.
C13_DeliveredStep ==
    log' # log =>
        /\ State = INITIALIZED
        /\ Len(log') = Len(log) + 1
        /\ SubSeq(log', 1, Len(log)) = log
        /\ \E t \in Threads :
              /\ pc[t] = "read"
              /\ pc'[t] # "read"
              /\ log'[Len(log')].req = call[t].req

C13_DroppedStep ==
    \A t \in Threads :
        (pc[t] = "load" /\ pc'[t] # pc[t] /\ State # INITIALIZED) =>
            /\ pc'[t] = "idle"
            /\ call'[t] = NoCall
            /\ log' = log

C13_NoEventBeforeInitialized == [][C13_DeliveredStep /\ C13_DroppedStep]_vars

\* One install and one point! were made; the point! loaded INITIALIZING and
\* was dropped, the install has completed, and the backend received nothing.
C13_Witness ==
    /\ State = INITIALIZED
    /\ ncalls = 2
    /\ ninstalls = 1
    /\ ndispatch.global = 1
    /\ \A t \in Threads : pc[t] = "idle"
    /\ \E e \in seen : e.st = INITIALIZING /\ e.val = NopRef
    /\ log = <<>>

-----------------------------------------------------------------------------
\* The calls a clear dispatch has made on user backends.
IsClearEnabled(e) == e.method = "enabled" /\ e.req.fn = "clear"
IsClear(e) == e.method = "clear"

\* C14: a clear dispatch asks the backend's enabled with a Metadata of exactly
\* its target and surface; the backend's clear is called with exactly that
\* surface, once, right after an enabled of the same dispatch that answered
\* true, and every enabled that answered true is followed by that clear (or
\* the dispatch is about to make it); after a false answer no clear follows.
C14_ClearGatedByEnabled ==
    \A i \in DOMAIN log :
        /\ IsClearEnabled(log[i]) =>
              /\ log[i].arg = [surface |-> log[i].req.surface,
                               target |-> log[i].req.target]
              /\ IF VLog_enabled(log[i].ref, log[i].arg)
                 THEN IF i < Len(log)
                      THEN /\ IsClear(log[i + 1])
                           /\ log[i + 1].req = log[i].req
                      ELSE /\ call[MainThread].op = "clear"
                           /\ call[MainThread].phase = "clear"
                           /\ call[MainThread].req = log[i].req
                 ELSE i < Len(log) => ~IsClear(log[i + 1])
        /\ IsClear(log[i]) =>
              /\ log[i].arg = log[i].req.surface
              /\ i > 1
              /\ IsClearEnabled(log[i - 1])
              /\ log[i - 1].ref = log[i].ref
              /\ log[i - 1].req = log[i].req
              /\ VLog_enabled(log[i - 1].ref, log[i - 1].arg)

\* Two clear dispatches have returned: one was enabled and cleared its
\* surface, the other was answered false and cleared nothing.
C14_Witness ==
    /\ pc[MainThread] = "idle"
    /\ Len(log) = 3
    /\ \E i \in DOMAIN log : IsClear(log[i]) /\ log[i].req.target = "tgt"
    /\ \E i \in DOMAIN log :
          IsClearEnabled(log[i]) /\ ~VLog_enabled(log[i].ref, log[i].arg)

-----------------------------------------------------------------------------
\* The vlog calls backend b has received.
VlogCalls(b) == {i \in DOMAIN log : log[i].ref = Ref(b) /\ log[i].method = "vlog"}

\* point!(vlogger: b, "S", [1.0, 2.0], 5.0, Base)
PointRequest == Request("vlog_point", "", <<1, 2>>, <<>>, 5, "Base", "Point", "S", ModulePath)

\* C15: a point dispatch with p = [1.0, 2.0], diameter 5.0, the default style
\* and surface S, given the always-enabled backend, hands that backend one
\* Record per call: a Point with x = 1.0, y = 2.0, z = 0.0 and the default
\* style, size 5.0 and metadata surface S.
C15_PointRecord ==
    /\ \A i \in VlogCalls(AlwaysEnabled) :
          log[i].req = PointRequest =>
              /\ log[i].arg.visual =
                    [kind |-> "Point", x |-> 1, y |-> 2, z |-> 0, style |-> "Point"]
              /\ log[i].arg.size = 5
              /\ log[i].arg.metadata.surface = "S"
    /\ pc[MainThread] = "idle" =>
          Cardinality(VlogCalls(AlwaysEnabled)) = ndispatch.explicit[AlwaysEnabled]

\* Exactly one such point dispatch was made and has returned.
C15_Witness ==
    /\ pc[MainThread] = "idle"
    /\ ncalls = 1
    /\ ndispatch.explicit[AlwaysEnabled] = 1
    /\ Len(log) = 1
    /\ log[1].ref = Ref(AlwaysEnabled)
    /\ log[1].req = PointRequest

-----------------------------------------------------------------------------
\* The x, y, z a position stands for: its first three elements, 0.0 where it
\* has none.
XYZ(pos) ==
    CASE Len(pos) = 0 -> <<0, 0, 0>>
      [] Len(pos) = 1 -> <<pos[1], 0, 0>>
      [] Len(pos) = 2 -> <<pos[1], pos[2], 0>>
      [] OTHER -> <<pos[1], pos[2], pos[3]>>

\* C16: the coordinates of a Point or Label are the first three elements of
\* the position given, missing trailing ones 0.0 and elements past the third
\* ignored; the two endpoints of a Line are each treated so, independently.
C16_CoordinatesDefaulted ==
    \A i \in DOMAIN log :
        LET d == log[i].req
            v == log[i].arg.visual
        IN  /\ d.fn \in {"vlog_point", "vlog_label"} =>
                  <<v.x, v.y, v.z>> = XYZ(d.pos)
            /\ d.fn = "vlog_line" =>
                  /\ <<v.x1, v.y1, v.z1>> = XYZ(d.pos)
                  /\ <<v.x2, v.y2, v.z2>> = XYZ(d.pos2)

\* A line from a one-element position to a four-element position has reached
\* the backend.
C16_Witness ==
    \E i \in DOMAIN log :
        /\ log[i].req.fn = "vlog_line"
        /\ Len(log[i].req.pos) = 1
        /\ Len(log[i].req.pos2) = 4
        /\ log[i].arg.visual.kind = "Line"

-----------------------------------------------------------------------------
\* The Line a polyline's i-th segment must be, for n points.
SegmentOf(pts, i, style) ==
    LET p == pts[i]
        q == pts[(i % Len(pts)) + 1]
    IN  [kind |-> "Line", x1 |-> p[1], y1 |-> p[2], z1 |-> p[3],
         x2 |-> q[1], y2 |-> q[2], z2 |-> q[3], style |-> style]

\* C17: a polyline of n >= 2 points given the always-enabled backend hands it
\* Line Records in order, the i-th from point i to point i+1; when the call
\* has returned there are n-1 of them for an open polyline and n for a closed
\* one, whose last goes from point n back to point 1.
C17_PolylineSegments ==
    (log # <<>> /\ log[1].req.fn = "polyline") =>
        LET pts == log[1].req.pts
            closed == log[1].req.closed
            n == Len(pts)
        IN  /\ \A i \in DOMAIN log :
                  /\ log[i].method = "vlog"
                  /\ log[i].ref = Ref(AlwaysEnabled)
                  /\ i <= n
                  /\ log[i].arg.visual = SegmentOf(pts, i, log[1].req.style)
            /\ pc[MainThread] = "idle" => Len(log) = IF closed THEN n ELSE n - 1

\* A closed polyline of three distinct points has returned.
C17_Witness ==
    /\ pc[MainThread] = "idle"
    /\ Len(log) = 3
    /\ log[1].req.fn = "polyline"
    /\ log[1].req.closed
    /\ log[1].req.pts = <<<<0, 0, 0>>, <<1, 0, 0>>, <<1, 1, 1>>>>

\* An open polyline of three points has returned.
C17_WitnessOpen ==
    /\ pc[MainThread] = "idle"
    /\ Len(log) = 2
    /\ log[1].req.fn = "polyline"
    /\ ~log[1].req.closed
    /\ Len(log[1].req.pts) = 3

-----------------------------------------------------------------------------
\* C20: a backend's vlog is called one call at a time, by a visual-kind
\* dispatch call that is in progress and returns in that very step, so at most
\* once per dispatch call and before it returns; the vlog calls a backend has
\* received never outnumber the dispatch calls made against it.
C20_VlogStep ==
    (log' # log /\ log'[Len(log')].method = "vlog") =>
        /\ Len(log') = Len(log) + 1
        /\ SubSeq(log', 1, Len(log)) = log
        /\ \E t \in Threads :
              /\ call[t].op = "vlog"
              /\ pc[t] \in {"read", "explicit"}
              /\ log'[Len(log')].req = call[t].req
              /\ log'[Len(log')].arg = call[t].record
              /\ pc'[t] = "idle"
              /\ call'[t] = NoCall

C20_VlogCount ==
    \A b \in Backends :
        Cardinality(VlogCalls(b)) <= ndispatch.explicit[b] + ndispatch.global

C20_AtMostOneVlogPerDispatch == []C20_VlogCount /\ [][C20_VlogStep]_vars

\* Two dispatch calls were made with one backend, which received two vlog
\* calls.
C20_Witness ==
    /\ pc[MainThread] = "idle"
    /\ \E b \in Backends :
          /\ ndispatch.explicit[b] = 2
          /\ Cardinality(VlogCalls(b)) = 2

-----------------------------------------------------------------------------
\* C18: whatever setters have been called on a RecordBuilder, in whatever
\* order, the record it builds returns through each accessor the value its
\* field was last set to: visual with coordinates and style, color (Hex
\* values included), size, text, target and surface (set one by one or as a
\* Metadata built by MetadataBuilder), module_path, file and line (Some and
\* None alike).
C18_BuilderRoundTrip ==
    \A t \in Threads :
        pc[t] = "builder" =>
            LET rec == RecordBuilder_build(call[t].record)
                set == call[t].set
            IN  /\ set.visual # None => Record_visual(rec) = set.visual[1]
                /\ set.color # None => Record_color(rec) = set.color[1]
                /\ set.size # None => Record_size(rec) = set.size[1]
                /\ set.args # None => Record_args(rec) = set.args[1]
                /\ set.target # None =>
                      /\ Record_target(rec) = set.target[1]
                      /\ Metadata_target(Record_metadata(rec)) = set.target[1]
                /\ set.surface # None =>
                      /\ Record_surface(rec) = set.surface[1]
                      /\ Metadata_surface(Record_metadata(rec)) = set.surface[1]
                /\ set.module_path # None =>
                      Record_module_path(rec) = set.module_path[1].path
                /\ set.file # None => Record_file(rec) = set.file[1].path
                /\ set.line # None => Record_line(rec) = set.line[1]

\* Every field has been set, none to its default.
C18_Witness ==
    /\ pc[MainThread] = "builder"
    /\ LET set == call[MainThread].set
       IN  /\ set.visual # None /\ set.visual[1].kind = "Line"
           /\ set.color = Some("Hex(0xFFFFFFFF)")
           /\ set.size = Some(5)
           /\ set.args = Some("text")
           /\ set.target = Some("tgt")
           /\ set.surface = Some("S")
           /\ set.module_path = PathSet(TRUE, Some("app"))
           /\ set.file = PathSet(FALSE, Some("app.rs"))
           /\ set.line = Some(Some(7))

-----------------------------------------------------------------------------
\* C19: the record built by a RecordBuilder on which no setter was called has
\* visual Message, color Base, size 12.0, empty text, metadata with target ""
\* and surface "", and no module_path, file or line; the Metadata built by a
\* fresh MetadataBuilder has target "" and surface "".
C19_BuilderDefaults ==
    /\ \A t \in Threads :
          (pc[t] = "builder" /\ call[t].set = Unset) =>
              LET rec == RecordBuilder_build(call[t].record)
              IN  /\ Record_visual(rec) = [kind |-> "Message"]
                  /\ Record_color(rec) = "Base"
                  /\ Record_size(rec) = 12
                  /\ Record_args(rec) = ""
                  /\ Record_metadata(rec) = [surface |-> "", target |-> ""]
                  /\ Record_target(rec) = ""
                  /\ Record_surface(rec) = ""
                  /\ Record_module_path(rec) = None
                  /\ Record_file(rec) = None
                  /\ Record_line(rec) = None
    /\ Metadata_target(MetadataBuilder_build(MetadataBuilder_new)) = ""
    /\ Metadata_surface(MetadataBuilder_build(MetadataBuilder_new)) = ""

\* A builder has been created and no setter called yet.
C19_Witness ==
    /\ pc[MainThread] = "builder"
    /\ call[MainThread].set = Unset
    /\ ncalls = 1

\* C21: across any interleaving of set_vlogger / set_boxed_vlogger calls
\* (no set_vlogger_racy), the VLOGGER slot is written at most once in the
\* whole run, only by the caller whose compare-and-set succeeded, and only
\* while STATE = INITIALIZING: every step that changes the slot is a step
\* of the assignment of that one caller, taken with STATE = INITIALIZING
\* before and after, and writes nothing but that caller's backend; no
\* second caller ever runs the assignment.
C21_SlotStep ==
    VLOGGER' # VLOGGER =>
        /\ State = INITIALIZING /\ State' = INITIALIZING
        /\ \E t \in Threads :
            /\ pc[t] \in {"write", "write2"} /\ pc'[t] # pc[t]
            /\ call[t].op \in {"set_vlogger", "set_boxed_vlogger"}
            /\ call[t].cas = UNINITIALIZED
            /\ made' = {call[t].b}
            /\ \A w \in {"data", "vtable"} :
                    VLOGGER'[w] # VLOGGER[w] =>
                        VLOGGER[w] = NOP /\ VLOGGER'[w] = call[t].b
C21_SlotWrittenOnce ==
    /\ [](Cardinality(made) <= 1)
    /\ [](\A t \in Threads : pc[t] \in {"write", "write2"} => State = INITIALIZING)
    /\ [][C21_SlotStep]_vars

\* C21 witness: the slot has been written in full by one caller while
\* another install call, which found the install in progress, was rejected
\* without writing.
C21_Witness ==
    /\ State = INITIALIZED
    /\ \E b \in ReturnedOk : VLOGGER = Ref(b) /\ made = {b}
    /\ \E b \in ReturnedErr : results[b].cas = INITIALIZING

\* C29: set_boxed_vlogger is observationally the same as set_vlogger.  One
\* rule, which does not look at the entry point, describes every install
\* call of either kind: the make_vlogger closure (the Box leak) runs only
\* in a call whose compare-and-set found UNINITIALIZED; a call returns Ok
\* exactly when its compare-and-set found UNINITIALIZED, and then STATE is
\* INITIALIZED and the slot holds its backend; a call that returns Err
\* changed neither STATE nor the slot, its closure never ran and its
\* backend is in no word of the slot.
C29_InstallRule(t) ==
    LET b == call[t].b IN
    /\ b \in made' \ made => pc[t] = "write" /\ call[t].cas = UNINITIALIZED
    /\ pc'[t] = "idle" =>
        /\ results'[b].val = "Ok" <=> results'[b].cas = UNINITIALIZED
        /\ results'[b].val = "Ok" =>
                State' = INITIALIZED /\ VLOGGER' = Ref(b) /\ b \in made'
        /\ results'[b].val = "Err" =>
                /\ State' = State /\ VLOGGER' = VLOGGER
                /\ b \notin made'
                /\ VLOGGER'.data # b /\ VLOGGER'.vtable # b
C29_BoxedStep ==
    /\ \A op \in {"set_vlogger", "set_boxed_vlogger"} :
        \A t \in Threads :
            (Installing(t) /\ call[t].op = op /\ pc'[t] # pc[t]) => C29_InstallRule(t)
    /\ made' # made => \E t \in Threads : Installing(t) /\ made' = made \cup {call[t].b}
C29_BoxedSameAsSetVLogger ==
    /\ [](\A t \in Threads : Installing(t) /\ pc[t] \in {"cas", "spin"}
                => call[t].b \notin made)
    /\ [][C29_BoxedStep]_vars

\* C29 witness: of two overlapping set_boxed_vlogger calls one won the
\* compare-and-set and leaked its Box, the other lost, waits in the spin
\* loop and has leaked nothing.
C29_Witness ==
    \E t, u \in Threads :
        /\ call[t].op = "set_boxed_vlogger" /\ pc[t] = "store"
        /\ call[u].op = "set_boxed_vlogger" /\ pc[u] = "spin"
        /\ made = {call[t].b} /\ VLOGGER = Ref(call[t].b)

\* The thread whose step changes STATE.
C22_ByCas(t) ==
    pc[t] = "cas" /\ pc'[t] = "write"
        /\ call[t].op \in {"set_vlogger", "set_boxed_vlogger"}
C22_ByWinnersStore(t) ==
    pc[t] = "store" /\ pc'[t] = "idle" /\ call[t].cas = UNINITIALIZED
        /\ call[t].op \in {"set_vlogger", "set_boxed_vlogger"}
C22_ByRacyStore(t) ==
    pc[t] = "rstore" /\ pc'[t] = "idle" /\ call[t].cas = UNINITIALIZED
        /\ call[t].op = "set_vlogger_racy"

\* C22 as stated: STATE only takes the values UNINITIALIZED, INITIALIZING,
\* INITIALIZED, and its only transitions are UNINITIALIZED -> INITIALIZING
\* by the winning compare-and-set of set_vlogger, INITIALIZING ->
\* INITIALIZED by the winner's store, and UNINITIALIZED -> INITIALIZED by
\* set_vlogger_racy.
C22_StatedStep ==
    State' # State =>
        \/ State = UNINITIALIZED /\ State' = INITIALIZING
                /\ \E t \in Threads : C22_ByCas(t)
        \/ State = INITIALIZING /\ State' = INITIALIZED
                /\ \E t \in Threads : C22_ByWinnersStore(t)
        \/ State = UNINITIALIZED /\ State' = INITIALIZED
                /\ \E t \in Threads : C22_ByRacyStore(t)
C22_OnlyStatedTransitions ==
    /\ [](State \in {UNINITIALIZED, INITIALIZING, INITIALIZED})
    /\ [][C22_StatedStep]_vars

\* C22, amended: STATE only takes the three values and only moves forward:
\* it never decreases and never leaves INITIALIZED.  UNINITIALIZED ->
\* INITIALIZING is the winning compare-and-set of set_vlogger /
\* set_boxed_vlogger, UNINITIALIZED -> INITIALIZED is the store of
\* set_vlogger_racy, and INITIALIZING -> INITIALIZED is the winner's store
\* or the store of a set_vlogger_racy call that loaded UNINITIALIZED before
\* the winner's compare-and-set (a call that overlaps the install).
C22_ForwardStep ==
    /\ State' >= State
    /\ State = INITIALIZED => State' = INITIALIZED
    /\ State' # State =>
        \/ State = UNINITIALIZED /\ State' = INITIALIZING
                /\ \E t \in Threads : C22_ByCas(t)
        \/ State = INITIALIZING /\ State' = INITIALIZED
                /\ \E t \in Threads :
                        \/ C22_ByWinnersStore(t)
                        \/ C22_ByRacyStore(t) /\ \E u \in Threads \ {t} : Winning(u)
        \/ State = UNINITIALIZED /\ State' = INITIALIZED
                /\ \E t \in Threads : C22_ByRacyStore(t)
C22_StateOnlyMovesForward ==
    /\ [](State \in {UNINITIALIZED, INITIALIZING, INITIALIZED})
    /\ [][C22_ForwardStep]_vars

\* C22 witness: a set_vlogger_racy call has returned Ok and left STATE =
\* INITIALIZED while the caller that won the compare-and-set is still
\* writing the slot.
C22_Witness ==
    /\ State = INITIALIZED
    /\ \E b \in ReturnedOk : b \notin made
    /\ \E t \in Threads : pc[t] \in {"write", "write2"}

\* The thread is lost to a fatal condition: the panic of unreachable!() or
\* a fault in a call through a torn reference.
Fatal(t) == pc[t] \in {"panic", "fault"}
\* The set_vlogger_racy calls that have begun to write the slot.
RacyWriters ==
    {b \in Started :
        \/ \E t \in Threads : /\ call[t].op = "set_vlogger_racy" /\ call[t].b = b
                               /\ pc[t] \in {"rwrite2", "rstore"}
        \/ b \in ReturnedOk \ made}

\* C25 as stated: no fatal condition is reachable through set_vlogger,
\* set_boxed_vlogger, vlogger(), the dispatch functions, clear or enabled;
\* the only abort is set_vlogger_racy loading STATE = INITIALIZING, which
\* takes a set_vlogger call in progress at that moment.
C25_PanicStep ==
    \A t \in Threads :
        (pc'[t] = "panic" /\ pc[t] # "panic") =>
            /\ pc[t] = "rload" /\ call[t].op = "set_vlogger_racy"
            /\ State = INITIALIZING
            /\ \E u \in Threads \ {t} :
                    Winning(u) /\ call[u].op \in {"set_vlogger", "set_boxed_vlogger"}
C25_OnlyRacyLoadAborts ==
    /\ [](\A t \in Threads : Fatal(t) =>
            /\ pc[t] = "panic"
            /\ call[t].op = "set_vlogger_racy" /\ call[t].cas = INITIALIZING)
    /\ [][C25_PanicStep]_vars

\* C25, amended: every fatal condition takes a set_vlogger_racy call that
\* overlaps another install call.  One is the panic of set_vlogger_racy when
\* it loads STATE = INITIALIZING, with the winner of the compare-and-set
\* still in its install; the other is a method call of the global proxy
\* through a torn VLOGGER value, which is read only after a
\* set_vlogger_racy call and one more install call have both written the
\* slot.  Without set_vlogger_racy no thread is ever lost.
C25_FaultStep ==
    \A t \in Threads :
        (pc'[t] = "fault" /\ pc[t] # "fault") =>
            /\ pc[t] = "read" /\ call[t].op \in {"vlog", "clear", "enabled"}
            /\ State = INITIALIZED /\ IsTorn(VLOGGER)
            /\ RacyWriters # {}
            /\ Cardinality(made \cup RacyWriters) >= 2
C25_FatalOnlyByRacyOverlap ==
    /\ [](\A t \in Threads : pc[t] = "panic" =>
            call[t].op = "set_vlogger_racy" /\ call[t].cas = INITIALIZING)
    /\ []((\E t \in Threads : Fatal(t)) =>
            \E b \in Started : b \notin made /\
                (b \in ReturnedOk \/ \E t \in Threads :
                    call[t].op = "set_vlogger_racy" /\ call[t].b = b))
    /\ [][C25_PanicStep /\ C25_FaultStep]_vars

\* C25 witness: a set_vlogger_racy call has panicked on STATE =
\* INITIALIZING while the set_vlogger call that won the compare-and-set is
\* still in its install.
C25_Witness ==
    \E t, u \in Threads :
        /\ pc[t] = "panic" /\ call[t].op = "set_vlogger_racy"
        /\ Winning(u) /\ call[u].op = "set_vlogger"
        /\ State = INITIALIZING

\* Thread t is inside set_vlogger_racy.
RacyInstalling(t) == pc[t] \in {"rload", "rwrite", "rwrite2", "rstore"}

\* C23: when no install call overlaps another, set_vlogger_racy behaves
\* like set_vlogger.  A call that loads UNINITIALIZED writes its backend,
\* takes STATE from UNINITIALIZED to INITIALIZED in one step and returns Ok;
\* STATE is never INITIALIZING while the call runs and the call never spins
\* or panics; a call that loads INITIALIZED returns Err at once and changes
\* neither STATE nor the slot.  In a sequential mix of set_vlogger and
\* set_vlogger_racy calls exactly the first call returns Ok.
C23_RacyStep ==
    \A t \in Threads :
        (RacyInstalling(t) /\ pc'[t] # pc[t]) =>
            LET b == call[t].b IN
            /\ pc'[t] \in {"rwrite", "rwrite2", "rstore", "idle"}
            /\ pc[t] = "rload" =>
                    /\ State' = State /\ VLOGGER' = VLOGGER
                    /\ pc'[t] = "rwrite" <=> State = UNINITIALIZED
                    /\ pc'[t] = "idle" <=> State = INITIALIZED
                    /\ pc'[t] = "idle" => results'[b].val = "Err"
            /\ pc[t] \in {"rwrite", "rwrite2"} => State' = UNINITIALIZED
            /\ pc[t] = "rstore" =>
                    /\ State = UNINITIALIZED /\ State' = INITIALIZED
                    /\ VLOGGER = Ref(b) /\ VLOGGER' = Ref(b)
                    /\ pc'[t] = "idle" /\ results'[b].val = "Ok"
C23_RacyLikeSetVLogger ==
    /\ [](\A t \in Threads : RacyInstalling(t) => State # INITIALIZING)
    /\ [](\A t \in Threads : pc[t] \notin {"spin", "panic", "fault"})
    /\ [](\A b \in Returned : results[b].val = "Ok" <=> b = 1)
    /\ [](\A b \in Returned : results[b].val = "Ok" <=> results[b].st0 = UNINITIALIZED)
    /\ [][C23_RacyStep]_vars

\* C23 witness: the first install call was a set_vlogger_racy call and
\* returned Ok, its backend is installed, and two later install calls
\* found STATE = INITIALIZED and returned Err.
C23_Witness ==
    /\ ReturnedOk = {1} /\ made = {}
    /\ State = INITIALIZED /\ VLOGGER = Ref(1)
    /\ ReturnedErr = {2, 3}
    /\ \A b \in ReturnedErr : results[b].st0 = INITIALIZED

\* C24: vlogger() and the dispatch functions are safe to use while a single
\* set_vlogger_racy call runs and no other install call does.  A vlogger()
\* call reads the slot only after it loaded STATE = INITIALIZED, and then
\* the slot is whole; every vlogger() call returns the no-op backend or the
\* backend of the install call that returned Ok, a backend is only ever
\* called through that reference, and no thread is lost.
C24_SafeDuringRacy ==
    /\ \A t \in Threads :
            pc[t] = "read" => State = INITIALIZED /\ ~IsTorn(VLOGGER)
    /\ \A e \in seen :
            \/ e.val = NopRef /\ e.st # INITIALIZED
            \/ /\ e.st = INITIALIZED /\ e.val = e.slot
               /\ \E b \in ReturnedOk : e.val = Ref(b)
    /\ \A i \in DOMAIN log : \E b \in ReturnedOk : log[i].ref = Ref(b)
    /\ \A t \in Threads : ~Fatal(t)

\* C24 witness: a vlogger() call returned the no-op backend while a
\* set_vlogger_racy call had written one word of the slot, and a later one
\* returned the backend that call installed.
C24_Witness ==
    /\ made = {}
    /\ \E e \in seen : e.val = NopRef /\ IsTorn(e.slot)
    /\ \E e \in seen : e.val = Ref(1) /\ e.st = INITIALIZED

\* Thread t is in a dispatch call made through the global proxy.
ViaProxy(t) ==
    call[t].op \in {"vlog", "clear", "enabled", "polyline"} /\ call[t].L = GlobalVLogger

\* C26: the global proxy consults the registration on every call and caches
\* nothing.  Every method call of the proxy starts with its own vlogger()
\* lookup; a lookup that finds STATE = INITIALIZED goes on to read the slot,
\* whatever earlier lookups returned, and the method is then called on the
\* installed backend with the argument of this call.  So a dispatch that
\* starts after STATE became INITIALIZED is always forwarded, even if
\* earlier dispatches from the same call site went to the no-op backend.
C26_ProxyStep ==
    \A t \in Threads :
        (ViaProxy(t) /\ pc'[t] # pc[t]) =>
            /\ pc[t] \in {"load", "read"}
            /\ pc'[t] \in {"load", "read", "idle"}
            /\ pc'[t] = "read" <=> (pc[t] = "load" /\ State = INITIALIZED)
            /\ pc[t] = "read" =>
                /\ \E b \in ReturnedOk : VLOGGER = Ref(b)
                /\ call[t].op = "vlog" =>
                        log' = Append(log, [ref |-> VLOGGER, method |-> "vlog",
                                            arg |-> call[t].record, req |-> call[t].req])
                /\ call[t].op = "clear" =>
                        /\ Len(log') = Len(log) + 1
                        /\ log'[Len(log')].ref = VLOGGER
                        /\ log'[Len(log')].method = call[t].phase
                        /\ log'[Len(log')].req = call[t].req
            /\ pc[t] = "load" /\ State # INITIALIZED => log' = log
C26_ProxyCachesNothing ==
    /\ [](\A t \in Threads : pc[t] = "idle" => call[t] = NoCall)
    /\ [][C26_ProxyStep]_vars

\* C26 witness: of two point! dispatches through the proxy the first went
\* to the no-op backend, the second, made after the install, reached the
\* installed backend.
C26_Witness ==
    /\ ndispatch.global = 2 /\ ninstalls = 1
    /\ \A t \in Threads : pc[t] = "idle"
    /\ \E e \in seen : e.val = NopRef
    /\ Len(log) = 1 /\ log[1].method = "vlog" /\ log[1].ref = Ref(1)

\* Thread t is in a vlogger() call or in a dispatch call (a visual kind,
\* clear or enabled).
Dispatching(t) == call[t].op \in {"vlogger", "vlog", "clear", "enabled", "polyline"}
\* ... with an explicitly given backend.
ViaExplicit(t) ==
    call[t].op \in {"vlog", "clear", "enabled", "polyline"} /\ call[t].L # GlobalVLogger

\* C27: vlogger() and every dispatch function (the visual kinds, clear,
\* enabled) leave STATE and the VLOGGER slot as they found them: only a step
\* of an install call changes either.  A dispatch call with an explicit
\* backend never enters vlogger() (it neither loads STATE nor reads the
\* slot, and adds nothing to what vlogger() has returned) and calls no
\* backend but the one it was given, whatever backend is installed.
C27_FrameStep ==
    /\ (State' # State \/ VLOGGER' # VLOGGER) =>
            \E t \in Threads : Installing(t) /\ pc'[t] # pc[t]
    /\ \A t \in Threads :
        /\ (Dispatching(t) /\ pc'[t] # pc[t]) => State' = State /\ VLOGGER' = VLOGGER
        /\ (pc[t] = "idle" /\ pc'[t] \in {"load", "explicit", "segment"}) =>
                State' = State /\ VLOGGER' = VLOGGER
        /\ (ViaExplicit(t) /\ (pc'[t] # pc[t] \/ call'[t] # call[t])) =>
                /\ pc[t] \in {"explicit", "segment", "ret"}
                /\ pc'[t] \in {"explicit", "segment", "ret", "idle"}
                /\ seen' = seen
                /\ \/ log' = log
                   \/ /\ Len(log') = Len(log) + 1
                      /\ log'[Len(log')].ref = call[t].to
                      /\ log'[Len(log')].req = call[t].req
C27_DispatchFrame ==
    /\ [](\A t \in Threads : ViaExplicit(t) => pc[t] \notin {"load", "read"})
    /\ [][C27_FrameStep]_vars

\* C27 witness: backend 1 is installed, a dispatch with backend 2 given
\* explicitly has been delivered to backend 2, and vlogger() was never
\* entered.
C27_Witness ==
    /\ State = INITIALIZED /\ VLOGGER = Ref(1)
    /\ seen = {}
    /\ Len(log) = 1 /\ log[1].ref = Ref(2) /\ log[1].method = "vlog"
    /\ ndispatch.explicit[2] = 1

\* What a backend b receives from the dispatch call with request req made
\* on b itself, with no decorator in between.
Undecorated(req, b) ==
    IF req.fn = "clear"
    THEN LET md == clear_metadata(req.target, req.surface) IN
         <<[ref |-> Ref(b), method |-> "enabled", arg |-> md, req |-> req]>>
         \o (IF SpyEnabled(b, md)
             THEN <<[ref |-> Ref(b), method |-> "clear", arg |-> req.surface, req |-> req]>>
             ELSE <<>>)
    ELSE IF req.fn = "enabled"
    THEN <<[ref |-> Ref(b), method |-> "enabled",
            arg |-> enabled_metadata(req.surface, req.target), req |-> req]>>
    ELSE <<[ref |-> Ref(b), method |-> "vlog", arg |-> Dispatched(req), req |-> req]>>

\* C28: the decorators (&T, Box<T>, Arc<T>) add no behaviour.  A method
\* call on a decorator calls the same method of what it wraps, once, with
\* the same argument, and changes nothing else; enabled returns the wrapped
\* backend's answer.  So whatever the decorators around it, the backend
\* receives from a dispatch call exactly the calls it receives when the
\* dispatch is made on the backend itself.
C28_DecoratorStep ==
    \A t \in Threads :
        (pc[t] = "explicit" /\ call[t].wrap # <<>> /\ (pc'[t] # pc[t] \/ call'[t] # call[t]))
        => /\ log' = log
           /\ pc'[t] = "explicit"
           /\ call'[t] = [call[t] EXCEPT !.wrap = Tail(call[t].wrap)]
C28_DecoratorsAddNothing ==
    /\ [](\A t \in Threads :
            /\ pc[t] = "explicit" =>
                    LET e == Undecorated(call[t].req, call[t].to.data) IN
                    /\ Len(log) < Len(e)
                    /\ log = SubSeq(e, 1, Len(log))
            /\ (t = MainThread /\ pc[t] = "idle") =>
                    /\ log # <<>>
                    /\ log = Undecorated(log[1].req, log[1].ref.data))
    /\ [][C28_DecoratorStep]_vars

\* C28 witness: a clear! on Arc<Box<backend>> has asked enabled through
\* all three decorators, got true, and its clear call has passed them too.
C28_Witness ==
    LET c == call[MainThread] IN
    /\ pc[MainThread] = "explicit"
    /\ c.op = "clear" /\ c.phase = "clear"
    /\ c.chain = <<"&", "Arc", "Box">> /\ c.wrap = <<>>
    /\ Len(log) = 1 /\ log[1].method = "enabled"

\* C30: a Record's size is 12.0 whenever the caller supplies none: the
\* Record of a label dispatched without its (size, color, alignment) group
\* and the Record of every message dispatch reach the backend with
\* size = 12.0.
C30_DefaultSizeIs12 ==
    \A i \in DOMAIN log :
        (log[i].method = "vlog"
            /\ log[i].req \in {DispatchRequest(fn, surface, ModulePath) :
                    fn \in {"vlog_label", "vlog_message"}, surface \in Surfaces})
        => Record_size(log[i].arg) = 12

\* The backend a dispatch call of thread t selects: the one given with
\* `vlogger:`, else what vlogger() returns (in the sequential model the
\* installed backend once STATE = INITIALIZED, the no-op backend before).
Selected(t) ==
    IF call[t].L # GlobalVLogger THEN call[t].to
    ELSE IF State = INITIALIZED THEN VLOGGER ELSE NopRef

\* C31: the enabled query function returns exactly the selected backend's
\* enabled result for Metadata{target = the target argument, surface = the
\* surface argument}: the two strings are not swapped, and with no target
\* override the target is the caller's module path.  The call makes one
\* enabled call on that backend and calls neither vlog nor clear.
C31_EnabledStep ==
    \A t \in Threads :
        (call[t].op = "enabled" /\ pc'[t] = "ret" /\ pc[t] # "ret") =>
            LET md == [target |-> call[t].req.target, surface |-> call[t].req.surface] IN
            /\ log' = IF Selected(t) = NopRef THEN log
                      ELSE Append(log, [ref |-> Selected(t), method |-> "enabled",
                                        arg |-> md, req |-> call[t].req])
            /\ call'[t].ret = VLog_enabled(Selected(t), md)
C31_EnabledReturnsBackendAnswer ==
    /\ [](\A t \in Threads : pc[t] = "ret" =>
            /\ call[t].op = "enabled" /\ call[t].by = Selected(t)
            /\ call[t].ret = VLog_enabled(Selected(t),
                    [target |-> call[t].req.target, surface |-> call[t].req.surface]))
    /\ [](\A i \in DOMAIN log : log[i].req.fn = "enabled" => log[i].method = "enabled")
    /\ [][C31_EnabledStep]_vars
    /\ [][\A t \in Threads : pc[t] = "ret" => log' = log]_vars

\* C31 witness: a backend that accepts only surface "S" was asked, with a
\* target override, about surface "S" and answered true; asked through the
\* global proxy it would be the same Metadata.
C31_Witness ==
    \E t \in Threads :
        /\ pc[t] = "ret" /\ call[t].ret = TRUE
        /\ call[t].by = Ref(1)
        /\ call[t].req.surface = "S" /\ call[t].req.target = "tgt"
        /\ log[Len(log)].arg = [target |-> "tgt", surface |-> "S"]

\* Thread t is in the body of clear()'s if, through the global proxy.
ClearingViaProxy(t) ==
    call[t].op = "clear" /\ call[t].phase = "clear" /\ call[t].L = GlobalVLogger

\* C32: when clear is dispatched through the global proxy while installs
\* race with it, the backend whose clear is invoked is the backend whose
\* enabled returned true earlier in that same call.  From the moment enabled
\* has answered true STATE is INITIALIZED and the slot holds the backend
\* that answered, so the second vlogger() lookup of the call reads the slot
\* and finds that backend; clear is never invoked on a backend that was not
\* asked.
C32_ClearStep ==
    \A t \in Threads :
        (ClearingViaProxy(t) /\ pc'[t] # pc[t]) =>
            /\ pc[t] = "load" => pc'[t] = "read"
            /\ pc[t] = "read" =>
                    /\ pc'[t] = "idle"
                    /\ log' = Append(log, [ref |-> call[t].by, method |-> "clear",
                                           arg |-> call[t].req.surface,
                                           req |-> call[t].req])
C32_ClearOnTheBackendAsked ==
    /\ [](\A t \in Threads : ClearingViaProxy(t) =>
            /\ State = INITIALIZED
            /\ call[t].by = VLOGGER /\ call[t].by # NopRef /\ ~IsTorn(call[t].by)
            /\ VLog_enabled(call[t].by, call[t].metadata)
            /\ \E i \in DOMAIN log :
                    /\ log[i].method = "enabled" /\ log[i].ref = call[t].by
                    /\ log[i].arg = call[t].metadata /\ log[i].req = call[t].req)
    /\ [](\A i \in DOMAIN log : log[i].method = "clear" =>
            \E j \in 1..(i - 1) :
                /\ log[j].method = "enabled" /\ log[j].ref = log[i].ref
                /\ log[j].req = log[i].req
                /\ VLog_enabled(log[j].ref, log[j].arg))
    /\ [][C32_ClearStep]_vars

\* C32 witness: a clear! through the proxy asked the installed backend,
\* got true and called its clear, in a run where a vlogger() lookup made
\* during the install still got the no-op backend.
C32_Witness ==
    /\ Len(log) = 2
    /\ log[1].method = "enabled" /\ log[2].method = "clear"
    /\ log[1].ref = log[2].ref /\ log[2].ref = VLOGGER
    /\ \E e \in seen : e.val = NopRef /\ e.st = INITIALIZING

\* C33: every Record delivered by a visual-kind dispatch function carries
\* metadata.surface = the surface argument, metadata.target = the target
\* argument (the caller's module path when the macro has no target: arm),
\* and module_path, file and line all Some, taken from the call site; a
\* target override changes only target, never module_path.
C33_MetadataAndLocation ==
    \A i \in DOMAIN log :
        log[i].method = "vlog" =>
            LET rec == log[i].arg IN
            /\ Metadata_surface(Record_metadata(rec)) = log[i].req.surface
            /\ Metadata_target(Record_metadata(rec)) = log[i].req.target
            /\ Record_module_path(rec) = Some(ModulePath)
            /\ Record_module_path_static(rec) = Some(ModulePath)
            /\ Record_file(rec) = Some(CallSite.file)
            /\ Record_line(rec) = Some(CallSite.line)

\* C33 witness: a message dispatched with a target override on surface "T"
\* has reached the backend with target "tgt" and the caller's module path.
C33_Witness ==
    /\ Len(log) = 1
    /\ log[1].req.fn = "vlog_message"
    /\ log[1].req.target = "tgt" /\ log[1].req.surface = "T"
    /\ Record_target(log[1].arg) = "tgt"
    /\ Record_module_path(log[1].arg) = Some(ModulePath)

-----------------------------------------------------------------------------
\* The fields of a Record other than its visual and its text.
Attributes(rec) ==
    <<Record_size(rec), Record_color(rec), rec.visual.style, Record_surface(rec),
      Record_target(rec), Record_module_path(rec), Record_file(rec), Record_line(rec)>>

\* C34: the Line Records of one polyline call of three or more points, or of
\* a closed list, all carry empty text and the same size, color, style,
\* surface, target and source location; a Line Record with text comes only
\* from a call with exactly two points, and is the single Record of that
\* call, carrying the text given.
C34_PolylineRecordsUniform ==
    /\ \A i \in DOMAIN log :
          (log[i].req.fn = "polyline"
              /\ (Len(log[i].req.pts) >= 3 \/ log[i].req.closed)) =>
             /\ log[i].arg.visual.kind = "Line"
             /\ Record_args(log[i].arg) = ""
             /\ \A j \in DOMAIN log : Attributes(log[j].arg) = Attributes(log[i].arg)
             /\ Attributes(log[i].arg) =
                    <<log[i].req.size, log[i].req.color, log[i].req.style,
                      log[i].req.surface, log[i].req.target, Some(ModulePath),
                      Some(CallSite.file), Some(CallSite.line)>>
    /\ \A i \in DOMAIN log :
          (log[i].method = "vlog" /\ log[i].arg.visual.kind = "Line"
              /\ Record_args(log[i].arg) # "") =>
             /\ log[i].req.fn = "vlog_line"
             /\ Record_args(log[i].arg) = log[i].req.args
             /\ Len(log) = 1

\* A closed, dashed polyline of three points has returned.
C34_Witness ==
    /\ pc[MainThread] = "idle"
    /\ Len(log) = 3
    /\ log[1].req.fn = "polyline"
    /\ log[1].req.closed
    /\ log[1].req.style = "Dashed"
    /\ log[3].arg.visual.style = "Dashed"
    /\ Record_target(log[3].arg) = ModulePath

\* A two-point line with a text has reached the backend.
C34_WitnessText ==
    /\ Len(log) = 1
    /\ log[1].req.fn = "vlog_line"
    /\ Record_args(log[1].arg) = "seg"

-----------------------------------------------------------------------------
\* The record rec with its field f replaced by that of the record other.
WithField(rec, f, other) == [g \in DOMAIN rec |-> IF g = f THEN other[g] ELSE rec[g]]

\* What each setter call on t's builder does to the record it holds.
C35_SetterStep ==
    \A t \in Threads :
        (pc[t] = "builder" /\ pc'[t] = "builder") =>
            LET r == call[t].record
                r2 == call'[t].record
            IN  /\ \A visual \in BuilderVisuals :
                      builder_visual(t, visual) => r2 = [r EXCEPT !.visual = visual]
                /\ \A color \in BuilderColors :
                      builder_color(t, color) => r2 = [r EXCEPT !.color = color]
                /\ \A size \in BuilderSizes :
                      builder_size(t, size) => r2 = [r EXCEPT !.size = size]
                /\ \A args \in BuilderArgs :
                      builder_args(t, args) => r2 = [r EXCEPT !.args = args]
                /\ \A target \in BuilderTargets :
                      builder_target(t, target) =>
                          r2 = [r EXCEPT !.metadata =
                                   [surface |-> r.metadata.surface, target |-> target]]
                /\ \A surface \in BuilderSurfaces :
                      builder_surface(t, surface) =>
                          r2 = [r EXCEPT !.metadata =
                                   [surface |-> surface, target |-> r.metadata.target]]
                /\ \A surface \in BuilderSurfaces, target \in BuilderTargets :
                      builder_metadata(t, surface, target) =>
                          r2 = [r EXCEPT !.metadata =
                                   [surface |-> surface, target |-> target]]
                /\ \A path \in BuilderPaths :
                      (builder_module_path(t, path) \/ builder_module_path_static(t, path))
                          => r2 = WithField(r, "module_path", r2)
                /\ \A file \in BuilderFiles :
                      (builder_file(t, file) \/ builder_file_static(t, file))
                          => r2 = WithField(r, "file", r2)
                /\ \A line \in BuilderLines :
                      builder_line(t, line) => r2 = [r EXCEPT !.line = line]

\* metadata(m) then target(t), and target(t) then metadata(m), on the builder
\* thread t holds.
C35_LastWriteWins ==
    \A t \in Threads :
        pc[t] = "builder" =>
            \A surface \in BuilderSurfaces, target \in BuilderTargets,
               other \in BuilderTargets :
                LET r == call[t].record
                    m == MetadataBuilder_build(MetadataBuilder_target(
                             MetadataBuilder_surface(MetadataBuilder_new, surface), target))
                IN  /\ Record_metadata(RecordBuilder_build(
                           RecordBuilder_target(RecordBuilder_metadata(r, m), other)))
                          = [surface |-> Metadata_surface(m), target |-> other]
                    /\ Record_metadata(RecordBuilder_build(
                           RecordBuilder_metadata(RecordBuilder_target(r, other), m)))
                          = m
                    /\ RecordBuilder_target(RecordBuilder_metadata(r, m), other)
                          = [r EXCEPT !.metadata =
                                [surface |-> surface, target |-> other]]
                    /\ RecordBuilder_metadata(RecordBuilder_target(r, other), m)
                          = [r EXCEPT !.metadata = m]

\* C35: each RecordBuilder setter changes only its own field, the last write
\* winning: target() and surface() change that one component of the metadata,
\* metadata() replaces both, so metadata(m) then target(t) gives target t
\* with the surface of m and target(t) then metadata(m) gives m; no setter
\* alters the visual, color, size, text or a location field it is not named
\* for.
C35_SettersChangeOnlyTheirField == []C35_LastWriteWins /\ [][C35_SetterStep]_vars

\* Every other field set away from its default, the builder holds the
\* surface given with metadata() and a target given after it with target().
C35_Witness ==
    /\ pc[MainThread] = "builder"
    /\ LET r == call[MainThread].record
       IN  /\ r.metadata = [surface |-> "S", target |-> "tgt"]
           /\ r.visual.kind = "Point"
           /\ r.color = "Hex(0x00000000)"
           /\ r.size = 5
           /\ r.args = "text"
           /\ r.module_path # None
           /\ r.file # None
           /\ r.line = Some(7)

-----------------------------------------------------------------------------
\* What the 'static accessor and the plain accessor must return when `set`
\* is what is remembered of the field's setter calls.
StaticExpected(set) ==
    IF set # None /\ set[1].static THEN set[1].path ELSE None
PlainExpected(set) ==
    IF set # None THEN set[1].path ELSE None

\* C36: Record::module_path_static (file_static) returns Some(s) exactly when
\* the field was last set with module_path_static (file_static) to Some(s);
\* after the borrowed setter module_path(Some(s)) (file(Some(s))) it returns
\* None while module_path() (file()) returns Some(s); both accessors return
\* None after either setter was given None.
C36_StaticAccessors ==
    \A t \in Threads :
        pc[t] = "builder" =>
            LET rec == RecordBuilder_build(call[t].record)
                mp == call[t].set.module_path
                fl == call[t].set.file
            IN  /\ Record_module_path_static(rec) = StaticExpected(mp)
                /\ Record_file_static(rec) = StaticExpected(fl)
                /\ Record_module_path(rec) = PlainExpected(mp)
                /\ Record_file(rec) = PlainExpected(fl)
                /\ \A s \in {"app", "app.rs"} :
                      /\ Record_module_path_static(rec) = Some(s) <=>
                            mp = PathSet(TRUE, Some(s))
                      /\ Record_file_static(rec) = Some(s) <=>
                            fl = PathSet(TRUE, Some(s))
                /\ mp = PathSet(FALSE, Some("app")) =>
                      /\ Record_module_path_static(rec) = None
                      /\ Record_module_path(rec) = Some("app")
                /\ fl = PathSet(FALSE, Some("app.rs")) =>
                      /\ Record_file_static(rec) = None
                      /\ Record_file(rec) = Some("app.rs")
                /\ (mp # None /\ mp[1].path = None) =>
                      /\ Record_module_path_static(rec) = None
                      /\ Record_module_path(rec) = None
                /\ (fl # None /\ fl[1].path = None) =>
                      /\ Record_file_static(rec) = None
                      /\ Record_file(rec) = None

\* The module path was last given through the borrowed setter and the file
\* through the 'static one.
C36_Witness ==
    /\ pc[MainThread] = "builder"
    /\ call[MainThread].set.module_path = PathSet(FALSE, Some("app"))
    /\ call[MainThread].set.file = PathSet(TRUE, Some("app.rs"))
    /\ Record_module_path_static(call[MainThread].record) = None
    /\ Record_file_static(call[MainThread].record) = Some("app.rs")

\* Both setters of the module path were last given None, the 'static one
\* after a string.
C36_WitnessNone ==
    /\ pc[MainThread] = "builder"
    /\ call[MainThread].set.module_path = PathSet(TRUE, None)
    /\ call[MainThread].set.file = PathSet(FALSE, None)

====
